---- MODULE Spec2Model ----
(***************************************************************************)
(* State-machine model of the mylo-ing/api sign-in flow and JWT middleware *)
(* (internal/handlers sign-in handlers, internal/middleware RequireJWT,    *)
(* internal/redis client).  Every request is a process; one action is one  *)
(* blocking store / dispatch call of a handler together with the local     *)
(* computation that follows it up to the next call or the response.        *)
(* Time is counted in minutes.                                             *)
(***************************************************************************)
EXTENDS Integers, Sequences, FiniteSets, TLC

\* ---------------------------------------------------------------- bounds
NumProcs == 2          \* request slots that can be in flight together
MaxRequests == 3       \* requests started in one behaviour
MaxTicks == 2          \* clock advances in one behaviour
MaxCalls == 3          \* subscriber requests started in one behaviour

Procs == 1..NumProcs

\* ------------------------------------------------------ program constants
CodeTTL == 5                     \* 5*time.Minute
SessionTTL == 1440               \* 24*time.Hour
TokenTTL == 1440                 \* now.Add(24 * time.Hour)
CodeModulus == 1000000           \* % 1000000
CodeWidth == 6                   \* "%06d"
StatusOK == 200
StatusBadRequest == 400
StatusUnauthorized == 401
StatusInternalServerError == 500

Secret == "devsecret"
BearerPrefix == "Bearer "

\* ----------------------------------------------------------------- inputs
Emails == {"a@b.com"}
EmailInputs == Emails \cup {""}

\* Outcomes of crypto/rand.Read on the 3-byte buffer, and the UnixNano value
\* read on the fallback path (reduced to fit 32-bit integers).
RandReads ==
    { [err |-> FALSE, b |-> <<0, 0, 7>>,     nano |-> 0],
      [err |-> FALSE, b |-> <<15, 66, 71>>,  nano |-> 0],
      [err |-> FALSE, b |-> <<1, 226, 64>>,  nano |-> 0],
      [err |-> TRUE,  b |-> <<0, 0, 0>>,     nano |-> 1730123456] }

\* Clock advances: to the instant a code written now expires, and from there
\* to the instant a session or token written now expires.
Advance == {CodeTTL, SessionTTL - CodeTTL}

\* ------------------------------------------------------------ pure helpers
RECURSIVE DecDigits(_)
DecDigits(n) == IF n < 10 THEN <<n>> ELSE Append(DecDigits(n \div 10), n % 10)

RECURSIVE PadLeft(_, _)
PadLeft(s, w) == IF Len(s) >= w THEN s ELSE PadLeft(<<0>> \o s, w)

\* fmt.Sprintf("%06d", n) for n >= 0, as a sequence of decimal digits
Sprintf06d(n) == PadLeft(DecDigits(n), CodeWidth)

generateSixDigitCode_Unreduced(r) ==
    IF r.err
    THEN Sprintf06d(r.nano)
    ELSE Sprintf06d(r.b[1] * 65536 + r.b[2] * 256 + r.b[3])
generateSixDigitCode(r) ==
    IF r.err
    THEN Sprintf06d(r.nano % CodeModulus)
    ELSE Sprintf06d((r.b[1] * 65536 + r.b[2] * 256 + r.b[3]) % CodeModulus)

Codes == { generateSixDigitCode(r) : r \in RandReads }
\* codes a client may type: the generated ones, an unpadded one, none
CodeInputs == Codes \cup {<<7>>, <<>>}

signInCodeKey_Shared(email) == <<"signin_code:", "">>
signInCodeKey(email) == <<"signin_code:", email>>
sessionKey(sessionID) == <<"session:", sessionID>>

\* fmt.Sprintf(`{"email":"%s"}`, email) as its three fragments
userProfile(email) == <<"{\"email\":\"", email, "\"}">>

\* randomToken(16): the n-th session identifier drawn
SidNames == <<"sid1", "sid2", "sid3", "sid4", "sid5", "sid6", "sid7", "sid8">>
randomToken(n) == SidNames[n]

\* ------------------------------------------------------------------- tokens
\* A token string: format "jwt" carries claims and the key it was signed with.
NoClaim == <<"absent", "">>
EmptyToken == [format |-> "empty", session_key |-> NoClaim, iat |-> 0, exp |-> 0, key |-> ""]
Garbage == [format |-> "malformed", session_key |-> NoClaim, iat |-> 0, exp |-> 0, key |-> ""]

GenerateJWT_NoExpiry(sessionID, t) ==
    [format |-> "jwt", session_key |-> <<"string", sessionID>>,
     iat |-> t, exp |-> 0, key |-> Secret]
GenerateJWT(sessionID, t) ==
    [format |-> "jwt", session_key |-> <<"string", sessionID>>,
     iat |-> t, exp |-> t + TokenTTL, key |-> Secret]

\* jwt.ParseWithClaims with the configured secret at time t: err == nil && token.Valid
ParseWithClaims_SignatureOnly(tok, t) == tok.format = "jwt" /\ tok.key = Secret
ParseWithClaims(tok, t) ==
    /\ tok.format = "jwt"
    /\ tok.key = Secret
    /\ t < tok.exp

\* A header value is a string with an optional leading scheme.
NoHeader == [scheme |-> "", cred |-> EmptyToken]
TrimPrefix(h, prefix) == IF h.scheme = prefix THEN [scheme |-> "", cred |-> h.cred] ELSE h

\* ------------------------------------------------- subscribers: pure helpers
StatusCreated == 201
StatusNoContent == 204
StatusNotFound == 404

Lower == {"a", "b", "c", "d", "e", "f", "g", "h", "i", "j", "k", "l", "m",
          "n", "o", "p", "q", "r", "s", "t", "u", "v", "w", "x", "y", "z"}
Upper == {"A", "B", "C", "D", "E", "F", "G", "H", "I", "J", "K", "L", "M",
          "N", "O", "P", "Q", "R", "S", "T", "U", "V", "W", "X", "Y", "Z"}
Digit == {"0", "1", "2", "3", "4", "5", "6", "7", "8", "9"}
Letter == Lower \cup Upper
LocalChar == Letter \cup Digit \cup {".", "_", "%", "+", "-"}      \* [a-zA-Z0-9._%+\-]
DomainChar == Letter \cup Digit \cup {".", "-"}                    \* [a-zA-Z0-9.\-]
Space == {" ", "\t", "\n", "\r"}

\* emailRegex.MatchString(s), s a sequence of characters:
\* ^[a-zA-Z0-9._%+\-]+@[a-zA-Z0-9.\-]+\.[a-zA-Z]{2,}$
MatchString(s) ==
    \E i, j \in 1..Len(s) :
        /\ s[i] = "@"
        /\ i > 1
        /\ \A k \in 1..(i - 1) : s[k] \in LocalChar
        /\ s[j] = "."
        /\ j > i + 1
        /\ \A k \in (i + 1)..(j - 1) : s[k] \in DomainChar
        /\ Len(s) - j >= 2
        /\ \A k \in (j + 1)..Len(s) : s[k] \in Letter

\* strings.TrimSpace(s)
RECURSIVE TrimLeft(_)
TrimLeft(s) == IF s # << >> /\ s[1] \in Space THEN TrimLeft(Tail(s)) ELSE s
RECURSIVE TrimRight(_)
TrimRight(s) ==
    IF s # << >> /\ s[Len(s)] \in Space THEN TrimRight(SubSeq(s, 1, Len(s) - 1)) ELSE s
TrimSpace(s) == TrimRight(TrimLeft(s))

\* validateSubscriberFields: "" when the fields pass, else the error text
EmailInvalid_EmptyOnly(email) == email = << >>
EmailInvalid(email) == email = << >> \/ ~MatchString(email)
NameMissing_Untrimmed(name) == name = << >>
NameMissing(name) == TrimSpace(name) = << >>
validateSubscriberFields(sub) ==
    IF EmailInvalid(sub.Email) THEN "invalid or missing email"
    ELSE IF NameMissing(sub.Name) THEN "missing name"
    ELSE ""

\* strconv.Atoi on a path parameter (a sequence of characters)
DigitValue(c) == CHOOSE n \in 0..9 : <<"0", "1", "2", "3", "4", "5", "6", "7", "8", "9">>[n + 1] = c
RECURSIVE ParseDigits(_)
ParseDigits(s) ==
    IF s = << >> THEN 0
    ELSE 10 * ParseDigits(SubSeq(s, 1, Len(s) - 1)) + DigitValue(s[Len(s)])
strconvAtoi(s) ==
    IF s # << >> /\ \A k \in 1..Len(s) : s[k] \in Digit
    THEN [err |-> FALSE, n |-> ParseDigits(s)]
    ELSE [err |-> TRUE, n |-> 0]

\* CREATE TYPE api.subscriber_type AS ENUM (...)
subscriber_type ==
    {"shopper", "business", "driver", "champion", "donor", "developer"}

\* ------------------------------------------------ subscribers: request inputs
\* a models.SubscriberType decoded from a body
TypeRow(id, name) == [ID |-> id, SubscriberID |-> 0, Name |-> name]
\* the subscriber_types field of a body: absent (nil slice) or a list
NoTypes == [nil |-> TRUE, list |-> << >>]
TypeList(list) == [nil |-> FALSE, list |-> list]

SubscriberInput(email, name, types) ==
    [bad |-> FALSE, ID |-> 0, Email |-> email, Name |-> name, SubscriberTypes |-> types]
\* a body BodyParser rejects: nothing of it is retained
EmptyBody == SubscriberInput(<< >>, << >>, NoTypes)       \* var subscriber models.Subscriber
BadBody == [EmptyBody EXCEPT !.bad = TRUE]

Email1 == <<"a", "@", "b", ".", "c", "o">>
Email2 == <<"x", "@", "y", ".", "i", "o">>
Name1 == <<"A", "l">>
Name2 == <<"B", "o">>
InvalidEmails == { << >>, <<"a", "b", ".", "c", "o">>, <<"a", "@", "b">> }
BlankName == <<" ">>

ValidBodies ==
    { SubscriberInput(Email1, Name1, NoTypes),
      SubscriberInput(Email2, Name2, TypeList(<< >>)),
      SubscriberInput(Email1, Name1, TypeList(<<TypeRow(0, "shopper")>>)),
      SubscriberInput(Email2, Name2, TypeList(<<TypeRow(0, "driver")>>)),
      SubscriberInput(Email2, Name1, TypeList(<<TypeRow(0, "bogus")>>)),
      [SubscriberInput(Email1, Name2, NoTypes) EXCEPT !.ID = 1] }        \* "id": 1
InvalidBodies ==
    { SubscriberInput(e, Name2, TypeList(<<TypeRow(0, "donor")>>)) : e \in InvalidEmails }
    \cup { SubscriberInput(Email2, BlankName, TypeList(<<TypeRow(0, "donor")>>)) }
Bodies == ValidBodies \cup InvalidBodies \cup {BadBody}
\* c.Params("id")
PathParams == { <<"1">>, <<"2">>, <<"x">> }
NoParam == << >>

\* ------------------------------------------------ relational store and GORM
EmptyDB ==
    [subscribers |-> << >>, subscriber_types |-> << >>,
     subscribers_id_seq |-> 0, subscriber_types_id_seq |-> 0]

\* time.Time{}: the zero value, before every reading of the clock
ZeroTime == -1

NoSubscriber ==
    [ID |-> 0, Email |-> << >>, Name |-> << >>, SubscriberTypes |-> {},
     CreatedAt |-> ZeroTime, UpdatedAt |-> ZeroTime]

\* rows of subscriber_types owned by sid, as models.SubscriberType values
TypesOf(d, sid) ==
    { [ID |-> t, SubscriberID |-> sid, Name |-> d.subscriber_types[t].name] :
        t \in { x \in DOMAIN d.subscriber_types : d.subscriber_types[x].subscriber_id = sid } }

\* subscriber_id INT NOT NULL REFERENCES subscribers(id)
ForeignKeyViolated_Off(d) == FALSE
ForeignKeyViolated(d) ==
    \E t \in DOMAIN d.subscriber_types :
        d.subscriber_types[t].subscriber_id \notin DOMAIN d.subscribers

\* a failed statement is rolled back; values drawn from the sequences stay drawn
Rollback(d, failed) ==
    [err |-> TRUE,
     db |-> [d EXCEPT !.subscribers_id_seq = failed.subscribers_id_seq,
                      !.subscriber_types_id_seq = failed.subscriber_types_id_seq]]
Commit(d, done) == IF ForeignKeyViolated(done) THEN Rollback(d, done)
                   ELSE [err |-> FALSE, db |-> done]

\* db.First(&dest, id) / db.Preload("SubscriberTypes").First(&dest, id)
First_NoPreload(d, id, preload, fault) ==
    IF fault \/ id \notin DOMAIN d.subscribers
    THEN [err |-> TRUE, sub |-> NoSubscriber]
    ELSE [err |-> FALSE,
          sub |-> [ID |-> id, Email |-> d.subscribers[id].email,
                   Name |-> d.subscribers[id].name,
                   SubscriberTypes |-> {},
                   CreatedAt |-> d.subscribers[id].created_at,
                   UpdatedAt |-> d.subscribers[id].updated_at]]
First_NoRecordNoError(d, id, preload, fault) ==
    IF fault THEN [err |-> TRUE, sub |-> NoSubscriber]
    ELSE IF id \notin DOMAIN d.subscribers THEN [err |-> FALSE, sub |-> NoSubscriber]
    ELSE [err |-> FALSE,
          sub |-> [ID |-> id, Email |-> d.subscribers[id].email,
                   Name |-> d.subscribers[id].name,
                   SubscriberTypes |-> IF preload THEN TypesOf(d, id) ELSE {},
                   CreatedAt |-> d.subscribers[id].created_at,
                   UpdatedAt |-> d.subscribers[id].updated_at]]
First(d, id, preload, fault) ==
    IF fault \/ id \notin DOMAIN d.subscribers
    THEN [err |-> TRUE, sub |-> NoSubscriber]
    ELSE [err |-> FALSE,
          sub |-> [ID |-> id, Email |-> d.subscribers[id].email,
                   Name |-> d.subscribers[id].name,
                   SubscriberTypes |-> IF preload THEN TypesOf(d, id) ELSE {},
                   CreatedAt |-> d.subscribers[id].created_at,
                   UpdatedAt |-> d.subscribers[id].updated_at]]

\* db.Preload("SubscriberTypes").Find(&subscribers)
Find(d, fault) ==
    IF fault THEN [err |-> TRUE, subs |-> {}]
    ELSE [err |-> FALSE,
          subs |-> { First(d, id, TRUE, FALSE).sub : id \in DOMAIN d.subscribers }]

\* INSERT of the rows of list, in order, with subscriber_id = sid; a row with
\* ID 0 takes the next sequence value; upsert is
\* ON CONFLICT (id) DO UPDATE SET subscriber_id = excluded.subscriber_id
RECURSIVE InsertTypes(_, _, _, _)
InsertTypes(d, list, sid, upsert) ==
    IF list = << >> THEN [err |-> FALSE, db |-> d]
    ELSE LET row == Head(list)
             id == IF row.ID = 0 THEN d.subscriber_types_id_seq + 1 ELSE row.ID
             d1 == IF row.ID = 0 THEN [d EXCEPT !.subscriber_types_id_seq = id] ELSE d
             old == d1.subscriber_types
             exists == id \in DOMAIN old
             written == [k \in DOMAIN old \cup {id} |->
                           IF k # id THEN old[k]
                           ELSE IF exists THEN [old[k] EXCEPT !.subscriber_id = sid]
                           ELSE [subscriber_id |-> sid, name |-> row.Name]]
         IN  IF exists /\ ~upsert THEN [err |-> TRUE, db |-> d1]
             ELSE InsertTypes([d1 EXCEPT !.subscriber_types = written],
                              Tail(list), sid, upsert)

\* a value outside the enum is rejected before any row is written
EnumViolated(list) == \E i \in 1..Len(list) : list[i].Name \notin subscriber_type

\* db.Create(&types) with every SubscriberID set to sid (one statement)
CreateTypes(d, list, sid, upsert) ==
    IF EnumViolated(list) THEN Rollback(d, d)
    ELSE LET r == InsertTypes(d, list, sid, upsert)
         IN  IF r.err THEN Rollback(d, r.db) ELSE Commit(d, r.db)

\* db.Create(&subscriber) at time t: the row, created_at and updated_at set
\* to t (autoCreateTime, autoUpdateTime), then its SubscriberTypes as an
\* upsert, in one transaction
gormCreate(d, sub, t) ==
    LET id == IF sub.ID = 0 THEN d.subscribers_id_seq + 1 ELSE sub.ID
        d1 == IF sub.ID = 0 THEN [d EXCEPT !.subscribers_id_seq = id] ELSE d
        d2 == [d1 EXCEPT !.subscribers =
                  [k \in DOMAIN d.subscribers \cup {id} |->
                      IF k = id THEN [email |-> sub.Email, name |-> sub.Name,
                                      created_at |-> t, updated_at |-> t]
                      ELSE d.subscribers[k]]]
        r == CreateTypes(d2, sub.SubscriberTypes.list, id, TRUE)
    IN  IF id \in DOMAIN d.subscribers
        THEN [err |-> TRUE, db |-> Rollback(d, d1).db, id |-> 0, msg |-> "pkey"]
        ELSE IF r.err
        THEN [err |-> TRUE, db |-> Rollback(d, r.db).db, id |-> 0, msg |-> "enum"]
        ELSE [err |-> FALSE, db |-> r.db, id |-> id, msg |-> ""]

\* the rows of a loaded SubscriberTypes field written back as an upsert
UpsertLoaded(d, rows, sid) ==
    LET old == d.subscriber_types
        ids == { t.ID : t \in rows }
    IN  [d EXCEPT !.subscriber_types =
            [k \in DOMAIN old \cup ids |->
                IF k \notin ids THEN old[k]
                ELSE IF k \in DOMAIN old THEN [old[k] EXCEPT !.subscriber_id = sid]
                ELSE [subscriber_id |-> sid,
                      name |-> (CHOOSE t \in rows : t.ID = k).Name]]]

\* db.Save(&existing) at time t: UPDATE of all columns by primary key, with
\* updated_at = t, and upsert of the loaded SubscriberTypes, in one
\* transaction; when the UPDATE matches no row, INSERT ... ON CONFLICT DO
\* UPDATE of the same value
gormSave(d, existing, t) ==
    LET id == existing.ID
        row == [email |-> existing.Email, name |-> existing.Name,
                created_at |-> existing.CreatedAt, updated_at |-> t]
        found == id \in DOMAIN d.subscribers
        updated == IF found THEN [d EXCEPT !.subscribers[id] = row] ELSE d
        saved == Commit(d, UpsertLoaded(updated, existing.SubscriberTypes, id))
    IN  IF saved.err \/ found THEN saved
        ELSE Commit(d, [saved.db EXCEPT !.subscribers =
                           [k \in DOMAIN d.subscribers \cup {id} |->
                               IF k = id THEN row ELSE d.subscribers[k]]])

\* db.Where("subscriber_id = ?", sid).Delete(&models.SubscriberType{})
DeleteTypesOf(d, sid) ==
    [d EXCEPT !.subscriber_types =
        [k \in { x \in DOMAIN d.subscriber_types :
                    d.subscriber_types[x].subscriber_id # sid } |->
            d.subscriber_types[k]]]

\* db.Delete(&subscriber)
gormDelete(d, id) ==
    Commit(d, [d EXCEPT !.subscribers =
                  [k \in DOMAIN d.subscribers \ {id} |-> d.subscribers[k]]])

\* ------------------------------------------------------------------- state
VARIABLES
    now,        \* wall clock, minutes
    ticks,      \* clock advances so far
    redis,      \* key-value store: present key -> [val, exp]
    proc,       \* request slots
    started,    \* requests started so far
    nextSid,    \* number of session identifiers drawn so far
    tokens,     \* tokens handed to clients by VerifySignIn
    issued,     \* per email: the codes stored by RequestSignIn, in order
    verified,   \* per email: the code of the last successful verification
    fate,       \* per email: what became of the last code
    wrote,      \* per email: the time of the last code write, -1 before the first
    db,         \* relational store: tables subscribers, subscriber_types, sequences
    sreq,       \* subscriber request slots
    calls       \* subscriber requests started so far

signinVars == <<now, ticks, redis, proc, started, nextSid, tokens, issued, verified, fate,
                wrote>>
storeVars == <<db, sreq, calls>>
vars == <<signinVars, storeVars>>

IdleReq ==
    [op |-> "none", route |-> "", pc |-> "idle", header |-> NoHeader, allowed |-> FALSE,
     param |-> NoParam, n |-> 0, updates |-> EmptyBody, existing |-> NoSubscriber,
     status |-> 0, body |-> "", res |-> {}, reads |-> 0, writes |-> 0,
     pre |-> NoSubscriber, alone |-> TRUE]

Idle ==
    [op |-> "none", pc |-> "idle", email |-> "", code |-> <<>>, header |-> NoHeader,
     at |-> 0, had |-> FALSE, val |-> <<>>, err |-> "", sessionID |-> "", status |-> 0, body |-> "",
     token |-> EmptyToken, nextCalled |-> FALSE,
     reads |-> 0, writes |-> 0, sends |-> 0,
     delErr |-> "", seen |-> 0, replay |-> FALSE, stale |-> FALSE, fate |-> "",
     step |-> 0]

Init ==
    /\ now = 0
    /\ ticks = 0
    /\ redis = << >>
    /\ proc = [p \in Procs |-> Idle]
    /\ started = 0
    /\ nextSid = 0
    /\ tokens = {}
    /\ issued = [e \in Emails |-> << >>]
    /\ verified = [e \in Emails |-> << >>]
    /\ fate = [e \in Emails |-> "never"]
    /\ wrote = [e \in Emails |-> -1]
    /\ db = EmptyDB
    /\ sreq = [p \in Procs |-> IdleReq]
    /\ calls = 0

\* ------------------------------------------------------------- redis client
Present(key) == key \in DOMAIN redis

\* Rdb.Get(...).Result(): the value, or redis.Nil for a missing key, or an I/O error
GetValue(key, fault) ==
    IF fault THEN [val |-> <<>>, err |-> "io"]
    ELSE IF ~Present(key) THEN [val |-> <<>>, err |-> "redis: nil"]
    ELSE [val |-> redis[key].val, err |-> ""]

\* Rdb.Set(key, value, expiration): the store after the write
SetValue_Hours(key, value, expiration) ==
    [k \in DOMAIN redis \cup {key} |->
        IF k = key THEN [val |-> value, exp |-> now + 60 * expiration] ELSE redis[k]]
SetValue_NX(key, value, expiration) ==
    [k \in DOMAIN redis \cup {key} |->
        IF k = key /\ key \notin DOMAIN redis
        THEN [val |-> value, exp |-> now + expiration] ELSE redis[k]]
SetValue(key, value, expiration) ==
    [k \in DOMAIN redis \cup {key} |->
        IF k = key THEN [val |-> value, exp |-> now + expiration] ELSE redis[k]]

\* Rdb.Del(key): the store after the delete
DeleteKey_WithSessions(key) ==
    [k \in { x \in DOMAIN redis : x # key /\ x[1] # "session:" } |-> redis[k]]
DeleteKey(key) == [k \in DOMAIN redis \ {key} |-> redis[k]]

Respond(p, r, status, body) ==
    [r EXCEPT !.pc = "done", !.status = status, !.body = body]

\* A request is admitted to the lowest free slot (slots are interchangeable)
\* once the responses already produced have been handed back.
Start(p) ==
    /\ proc[p].pc = "idle"
    /\ \A q \in Procs : proc[q].pc # "done" /\ (q < p => proc[q].pc # "idle")
    /\ started < MaxRequests
    /\ started' = started + 1

\* stored code observed / overwritten bookkeeping for in-flight verifications
InFlightVerify(q, email) ==
    /\ proc[q].op = "VerifySignIn"
    /\ proc[q].pc \in {"delete", "session"}
    /\ proc[q].email = email

\* ------------------------------------------------------- POST /signin/request
\* an email string as the sequence of its characters
Chars(email) == <<"a", "@", "b", ".", "c", "o", "m">>
\* a subscriber with that email is stored
Known(email) ==
    \E id \in DOMAIN db.subscribers : db.subscribers[id].email = Chars(email)

\* req.Email == ""
MissingEmail_Unknown(email) == email = "" \/ ~Known(email)
MissingEmail(email) == email = ""

RequestSignIn(p, badBody, email, r, fault) ==
    /\ Start(p)
    /\ LET raw == [Idle EXCEPT !.op = "RequestSignIn"]
           req == [raw EXCEPT !.email = email]
           code == generateSixDigitCode(r)
       IN  IF badBody
           THEN /\ proc' = [proc EXCEPT ![p] =
                        Respond(p, raw, StatusBadRequest, "Invalid request body")]
                /\ UNCHANGED <<redis, issued, verified, fate, wrote>>
           ELSE IF MissingEmail(email)
           THEN /\ proc' = [proc EXCEPT ![p] =
                        Respond(p, req, StatusBadRequest, "Missing email")]
                /\ UNCHANGED <<redis, issued, verified, fate, wrote>>
           ELSE IF fault
           THEN /\ proc' = [proc EXCEPT ![p] =
                        Respond(p, [req EXCEPT !.code = code, !.writes = 1],
                                StatusInternalServerError, "Unable to store code in redis")]
                /\ UNCHANGED <<redis, issued, verified, fate, wrote>>
           ELSE /\ redis' = SetValue(signInCodeKey(email), code, CodeTTL)
                /\ proc' = [q \in Procs |->
                       IF q = p
                       THEN [req EXCEPT !.pc = "send", !.code = code, !.writes = 1]
                       ELSE IF InFlightVerify(q, email)
                       THEN [proc[q] EXCEPT !.replay = FALSE, !.stale = TRUE]
                       ELSE proc[q]]
                /\ issued' = [issued EXCEPT ![email] = Append(@, code)]
                /\ verified' = [verified EXCEPT ![email] = << >>]
                /\ fate' = [fate EXCEPT ![email] = "live"]
                /\ wrote' = [wrote EXCEPT ![email] = now]
    /\ UNCHANGED <<now, ticks, nextSid, tokens>>
    /\ UNCHANGED storeVars

\* the response after sendgridservice.SendCodeEmailFunc returned
SendResponse_ErrorDropped(err) ==
    [status |-> StatusOK, body |-> "A sign-in code has been emailed to you."]
SendResponse(err) ==
    IF err # ""
    THEN [status |-> StatusInternalServerError, body |-> "Failed to send email"]
    ELSE [status |-> StatusOK, body |-> "A sign-in code has been emailed to you."]

\* sendgridservice.SendCodeEmailFunc(req.Email, code) and the response
SendCodeEmail_RollingBack(p, fault) ==
    /\ proc[p].op = "RequestSignIn"
    /\ proc[p].pc = "send"
    /\ LET err == IF fault THEN "dispatch" ELSE ""
           req == [proc[p] EXCEPT !.sends = @ + 1, !.err = err]
       IN  proc' = [proc EXCEPT ![p] =
               Respond(p, req, SendResponse(err).status, SendResponse(err).body)]
    /\ redis' = IF fault THEN DeleteKey(signInCodeKey(proc[p].email)) ELSE redis
    /\ UNCHANGED <<now, ticks, started, nextSid, tokens, issued, verified, fate, wrote>>
    /\ UNCHANGED storeVars
SendCodeEmail(p, fault) ==
    /\ proc[p].op = "RequestSignIn"
    /\ proc[p].pc = "send"
    /\ LET err == IF fault THEN "dispatch" ELSE ""
           req == [proc[p] EXCEPT !.sends = @ + 1, !.err = err]
       IN  proc' = [proc EXCEPT ![p] =
               Respond(p, req, SendResponse(err).status, SendResponse(err).body)]
    /\ UNCHANGED <<now, ticks, redis, started, nextSid, tokens, issued, verified, fate,
                   wrote>>
    /\ UNCHANGED storeVars

\* -------------------------------------------------------- POST /signin/verify
\* req.Email == "" || req.Code == ""
MissingEmailOrCode_EmailOnly(email, code) == email = ""
MissingEmailOrCode(email, code) == email = "" \/ code = << >>

\* err != nil || storedCode == ""
NoCodeFound_EmptyOnly(got) == got.err = "" /\ got.val = << >>
NoCodeFound(got) == got.err # "" \/ got.val = << >>

\* storedCode != req.Code
RECURSIVE Atoi(_)
Atoi(digits) ==
    IF digits = << >> THEN 0
    ELSE 10 * Atoi(SubSeq(digits, 1, Len(digits) - 1)) + digits[Len(digits)]
InvalidCode_Numeric(storedCode, code) == Atoi(storedCode) # Atoi(code)
InvalidCode(storedCode, code) == storedCode # code

\* body parsing, the required-field check, the lookup and the comparison
VerifySignIn_Burning(p, badBody, email, code, fault) ==
    /\ Start(p)
    /\ LET raw == [Idle EXCEPT !.op = "VerifySignIn"]
           req == [raw EXCEPT !.email = email, !.code = code]
           got == GetValue(signInCodeKey(email), fault)
           looked == [req EXCEPT !.reads = 1, !.val = got.val, !.err = got.err,
                                 !.at = now,
                                 !.seen = Len(issued[email]),
                                 !.replay = (verified[email] = code),
                                 !.fate = fate[email]]
       IN  proc' = [proc EXCEPT ![p] =
               IF badBody
               THEN Respond(p, raw, StatusBadRequest, "Invalid request body")
               ELSE IF MissingEmailOrCode(email, code)
               THEN Respond(p, req, StatusBadRequest, "Missing email or code")
               ELSE IF NoCodeFound(got)
               THEN Respond(p, looked, StatusBadRequest,
                            "No sign-in code found or code expired")
               ELSE IF InvalidCode(got.val, code)
               THEN Respond(p, looked, StatusUnauthorized, "Invalid code")
               ELSE [looked EXCEPT !.pc = "delete"]]
    /\ redis' = IF /\ ~badBody /\ ~MissingEmailOrCode(email, code)
                    /\ ~NoCodeFound(GetValue(signInCodeKey(email), fault))
                    /\ InvalidCode(GetValue(signInCodeKey(email), fault).val, code)
                 THEN DeleteKey(signInCodeKey(email))
                 ELSE redis
    /\ UNCHANGED <<now, ticks, nextSid, tokens, issued, verified, fate, wrote>>
    /\ UNCHANGED storeVars
VerifySignIn(p, badBody, email, code, fault) ==
    /\ Start(p)
    /\ LET raw == [Idle EXCEPT !.op = "VerifySignIn"]
           req == [raw EXCEPT !.email = email, !.code = code]
           got == GetValue(signInCodeKey(email), fault)
           looked == [req EXCEPT !.reads = 1, !.val = got.val, !.err = got.err,
                                 !.at = now,
                                 !.seen = Len(issued[email]),
                                 !.replay = (verified[email] = code),
                                 !.fate = fate[email]]
       IN  proc' = [proc EXCEPT ![p] =
               IF badBody
               THEN Respond(p, raw, StatusBadRequest, "Invalid request body")
               ELSE IF MissingEmailOrCode(email, code)
               THEN Respond(p, req, StatusBadRequest, "Missing email or code")
               ELSE IF NoCodeFound(got)
               THEN Respond(p, looked, StatusBadRequest,
                            "No sign-in code found or code expired")
               ELSE IF InvalidCode(got.val, code)
               THEN Respond(p, looked, StatusUnauthorized, "Invalid code")
               ELSE [looked EXCEPT !.pc = "delete"]]
    /\ UNCHANGED <<now, ticks, redis, nextSid, tokens, issued, verified, fate, wrote>>
    /\ UNCHANGED storeVars

\* _ = redisclient.DeleteKey(signInCodeKey(req.Email)): the error is dropped
VerifyDelete(p, fault) ==
    /\ proc[p].op = "VerifySignIn"
    /\ proc[p].pc = "delete"
    /\ LET key == signInCodeKey(proc[p].email)
       IN  /\ redis' = IF fault THEN redis ELSE DeleteKey(key)
           /\ fate' = IF ~fault /\ Present(key)
                      THEN [fate EXCEPT ![proc[p].email] = "consumed"]
                      ELSE fate
    /\ proc' = [proc EXCEPT ![p].pc = "session", ![p].writes = @ + 1,
                            ![p].delErr = IF fault THEN "io" ELSE ""]
    /\ UNCHANGED <<now, ticks, started, nextSid, tokens, issued, verified, wrote>>
    /\ UNCHANGED storeVars

\* redisclient.SetValue("session:"+sessionID, userProfile, 24*time.Hour)
StoreSession_WrittenThenFailed(sessionID, email, fault) ==
    [err |-> fault, redis |-> SetValue(sessionKey(sessionID), userProfile(email), SessionTTL)]
StoreSession(sessionID, email, fault) ==
    IF fault THEN [err |-> TRUE, redis |-> redis]
    ELSE [err |-> FALSE,
          redis |-> SetValue(sessionKey(sessionID), userProfile(email), SessionTTL)]

\* randomToken, the session write, GenerateJWT and the response
\* (HS256 signing with a byte-slice key cannot fail: no "Could not create token")
VerifySession(p, fault) ==
    /\ proc[p].op = "VerifySignIn"
    /\ proc[p].pc = "session"
    /\ nextSid' = nextSid + 1
    /\ LET sessionID == randomToken(nextSid + 1)
           req == [proc[p] EXCEPT !.sessionID = sessionID, !.writes = @ + 1]
           token == GenerateJWT(sessionID, now)
           stored == StoreSession(sessionID, req.email, fault)
       IN  IF stored.err
           THEN /\ proc' = [proc EXCEPT ![p] =
                        Respond(p, req, StatusInternalServerError, "Could not store session")]
                /\ redis' = stored.redis
                /\ UNCHANGED <<tokens, verified>>
           ELSE /\ redis' = stored.redis
                /\ proc' = [proc EXCEPT ![p] =
                        Respond(p, [req EXCEPT !.token = token], StatusOK, "token")]
                /\ tokens' = tokens \cup {token}
                /\ verified' = IF req.stale THEN verified
                               ELSE [verified EXCEPT ![req.email] = req.code]
    /\ UNCHANGED <<now, ticks, started, issued, fate, wrote>>
    /\ UNCHANGED storeVars

\* ------------------------------------------------------------ RequireJWT
\* tokens a caller can put in a header: the issued ones and hand-made ones
CraftedTokens ==
    { [format |-> "jwt", session_key |-> sk, iat |-> now, exp |-> e, key |-> k] :
        sk \in {<<"string", "sid1">>, <<"number", "42">>},
        e \in {now, now + 60},
        k \in {Secret, "forged"} }

HeaderInputs ==
    {NoHeader, [scheme |-> "", cred |-> Garbage],
     [scheme |-> BearerPrefix, cred |-> Garbage],
     [scheme |-> BearerPrefix, cred |-> EmptyToken]}
    \cup { [scheme |-> BearerPrefix, cred |-> t] : t \in tokens \cup CraftedTokens }
    \cup { [scheme |-> "", cred |-> t] : t \in tokens }

\* claims["session_key"].(string)
ClaimIsString_Any(c) == TRUE
ClaimIsString(c) == c[1] = "string"

\* err != nil, then sessionVal == "": the two session checks
SessionError(got) == got.err # ""
SessionEmpty(got) == got.val = << >>
SessionNotFound_ErrOnly(got) == got.err = "io"
SessionNotFound(got) == SessionError(got) \/ SessionEmpty(got)

\* the key RequireJWT looks up for a header
HeaderSessionKey(authHeader) ==
    sessionKey(TrimPrefix(authHeader, BearerPrefix).cred.session_key[2])

Denial(step, body) ==
    [allow |-> FALSE, step |-> step, status |-> StatusUnauthorized, body |-> body]

\* The decision of RequireJWT for a header at time t, got being the result of
\* the session lookup (read only when the first four checks pass).
Authorize_SubscribersOnly(authHeader, t, got) ==
    LET tokenString == TrimPrefix(authHeader, BearerPrefix)
        claims == tokenString.cred
    IN  IF authHeader = NoHeader
        THEN Denial(1, "Missing Authorization header")
        ELSE IF tokenString = authHeader
        THEN Denial(2, "Invalid token format")
        ELSE IF ~ParseWithClaims(claims, t)
        THEN Denial(3, "Invalid or expired token")
        ELSE IF ~ClaimIsString(claims.session_key)
        THEN Denial(4, "Session key missing in token")
        ELSE IF ~SessionNotFound(got) /\ ~Known(got.val[2])
        THEN Denial(5, "Session invalid or not found")
        ELSE IF ~SessionNotFound(got)
        THEN [allow |-> TRUE, step |-> 6, status |-> 0, body |-> ""]
        ELSE IF SessionError(got)
        THEN Denial(5, "Session not found or expired")
        ELSE Denial(5, "Session invalid or not found")
Authorize(authHeader, t, got) ==
    LET tokenString == TrimPrefix(authHeader, BearerPrefix)
        claims == tokenString.cred
    IN  IF authHeader = NoHeader
        THEN Denial(1, "Missing Authorization header")
        ELSE IF tokenString = authHeader
        THEN Denial(2, "Invalid token format")
        ELSE IF ~ParseWithClaims(claims, t)
        THEN Denial(3, "Invalid or expired token")
        ELSE IF ~ClaimIsString(claims.session_key)
        THEN Denial(4, "Session key missing in token")
        ELSE IF ~SessionNotFound(got)
        THEN [allow |-> TRUE, step |-> 6, status |-> 0, body |-> ""]
        ELSE IF SessionError(got)
        THEN Denial(5, "Session not found or expired")
        ELSE Denial(5, "Session invalid or not found")

RequireJWT_Sliding(p, authHeader, fault) ==
    /\ Start(p)
    /\ LET key == HeaderSessionKey(authHeader)
           got == GetValue(key, fault)
           d == Authorize(authHeader, now, got)
           req == [Idle EXCEPT !.op = "RequireJWT", !.header = authHeader, !.at = now,
                               !.pc = "done", !.status = d.status, !.body = d.body,
                               !.step = d.step, !.nextCalled = d.allow,
                               !.had = Present(key)]
       IN  /\ proc' = [proc EXCEPT ![p] =
                  IF d.step < 5 THEN req
                  ELSE [req EXCEPT !.reads = 1, !.val = got.val, !.err = got.err]]
           /\ redis' = IF d.allow THEN SetValue(key, got.val, SessionTTL) ELSE redis
    /\ UNCHANGED <<now, ticks, nextSid, tokens, issued, verified, fate, wrote>>
    /\ UNCHANGED storeVars
RequireJWT(p, authHeader, fault) ==
    /\ Start(p)
    /\ LET got == GetValue(HeaderSessionKey(authHeader), fault)
           d == Authorize(authHeader, now, got)
           req == [Idle EXCEPT !.op = "RequireJWT", !.header = authHeader, !.at = now,
                               !.pc = "done", !.status = d.status, !.body = d.body,
                               !.step = d.step, !.nextCalled = d.allow,
                               !.had = Present(HeaderSessionKey(authHeader))]
       IN  proc' = [proc EXCEPT ![p] =
               IF d.step < 5 THEN req
               ELSE [req EXCEPT !.reads = 1, !.val = got.val, !.err = got.err]]
    /\ UNCHANGED <<now, ticks, redis, nextSid, tokens, issued, verified, fate, wrote>>
    /\ UNCHANGED storeVars

\* ------------------------------------------------------------ environment
Expired(k, t) == redis[k].exp <= t

\* time passes; the store drops the keys whose time-to-live has elapsed
\* (the clock is advanced only while some record or token is ageing)
Tick(d) ==
    /\ ticks < MaxTicks
    /\ DOMAIN redis # {} \/ tokens # {}
    /\ ticks' = ticks + 1
    /\ now' = now + d
    /\ redis' = [k \in {x \in DOMAIN redis : ~Expired(x, now + d)} |-> redis[k]]
    /\ fate' = [e \in DOMAIN fate |->
                  IF Present(signInCodeKey(e)) /\ Expired(signInCodeKey(e), now + d)
                  THEN "expired" ELSE fate[e]]
    /\ UNCHANGED <<proc, started, nextSid, tokens, issued, verified, wrote>>
    /\ UNCHANGED storeVars

\* the response has been delivered; the slot serves the next request
Return(p) ==
    /\ proc[p].pc = "done"
    /\ proc' = [proc EXCEPT ![p] = Idle]
    /\ UNCHANGED <<now, ticks, redis, started, nextSid, tokens, issued, verified, fate,
                   wrote>>
    /\ UNCHANGED storeVars

Next ==
    \/ \E p \in Procs, badBody \in BOOLEAN, email \in EmailInputs,
          r \in RandReads, fault \in BOOLEAN :
            RequestSignIn(p, badBody, email, r, fault)
    \/ \E p \in Procs, fault \in BOOLEAN : SendCodeEmail(p, fault)
    \/ \E p \in Procs, badBody \in BOOLEAN, email \in EmailInputs,
          code \in CodeInputs, fault \in BOOLEAN :
            VerifySignIn(p, badBody, email, code, fault)
    \/ \E p \in Procs, fault \in BOOLEAN : VerifyDelete(p, fault)
    \/ \E p \in Procs, fault \in BOOLEAN : VerifySession(p, fault)
    \/ \E p \in Procs, h \in HeaderInputs, fault \in BOOLEAN :
            RequireJWT(p, h, fault)
    \/ \E d \in Advance : Tick(d)
    \/ \E p \in Procs : Return(p)

Spec == Init /\ [][Next]_vars

\* ===================================================== subscriber requests
\* A request is admitted to the lowest free slot once the responses already
\* produced have been handed back.
Arrive(p) ==
    /\ sreq[p].pc = "idle"
    /\ \A q \in Procs : sreq[q].pc # "done" /\ (q < p => sreq[q].pc # "idle")
    /\ calls < MaxCalls
    /\ calls' = calls + 1

Reply(r, status, body) == [r EXCEPT !.pc = "done", !.status = status, !.body = body]

\* the slots after request p has moved to r; wrote: p made a write call, which
\* the other requests in the slots have then overlapped with or been followed by
Slots(p, r, wrote_) ==
    [q \in Procs |->
        IF q = p THEN r
        ELSE IF wrote_ /\ sreq[q].pc # "idle"
        THEN [sreq[q] EXCEPT !.alone = FALSE]
        ELSE sreq[q]]

\* headers sent to /admin: none, an issued token, a signed token naming a
\* session that was never stored
AdminHeaders ==
    {NoHeader}
    \cup { [scheme |-> BearerPrefix, cred |-> t] :
             t \in tokens \cup {GenerateJWT(randomToken(nextSid + 1), now)} }

\* app.Group("/admin", cors, middleware.RequireJWT); app.Group("/signup", cors)
Gated_AdminOpen(route) == FALSE
Gated(route) == route = "admin"

\* /admin/subscribers...: RequireJWT, then c.Next() hands over to the handler
\* of the route, which is the first to read the path parameter and the body
AdminRequest(p, authHeader, fault) ==
    /\ Arrive(p)
    /\ LET got == GetValue(HeaderSessionKey(authHeader), fault)
           d == IF Gated("admin") THEN Authorize(authHeader, now, got)
                ELSE [allow |-> TRUE, step |-> 0, status |-> 0, body |-> ""]
           r == [IdleReq EXCEPT !.route = "admin", !.header = authHeader,
                                !.allowed = d.allow /\ d.step = 6]
       IN  sreq' = Slots(p, IF d.allow THEN [r EXCEPT !.pc = "handler"]
                            ELSE Reply(r, d.status, d.body), FALSE)
    /\ UNCHANGED <<db, signinVars>>

\* the handler of a route takes over a request the middleware passed on
Handle(p, op, param, body) ==
    [sreq[p] EXCEPT !.op = op, !.param = param, !.updates = body]

\* ------------------------------------------------------- CreateSubscriber
\* fmt.Sprintf("Could not create subscriber: %v", err)
CouldNotCreate(msg) ==
    CASE msg = "pkey" ->
           "Could not create subscriber: duplicate key value violates unique constraint"
      [] msg = "enum" ->
           "Could not create subscriber: invalid input value for enum subscriber_type"
      [] OTHER -> "Could not create subscriber: connection refused"

\* BodyParser, validateSubscriberFields and db.Create(&subscriber)
CreateStep(p, r, fault) ==
    LET invalid == validateSubscriberFields(r.updates)
        c == IF fault THEN [err |-> TRUE, db |-> db, id |-> 0, msg |-> "conn"]
             ELSE gormCreate(db, r.updates, now)
        w == [r EXCEPT !.writes = @ + 1]
    IN  IF r.updates.bad
        THEN /\ sreq' = Slots(p, Reply(r, StatusBadRequest, "Unable to parse request body"),
                              FALSE)
             /\ db' = db
        ELSE IF invalid # ""
        THEN /\ sreq' = Slots(p, Reply(r, StatusBadRequest, invalid), FALSE)
             /\ db' = db
        ELSE /\ db' = c.db
             /\ sreq' = Slots(p, IF c.err
                                 THEN Reply(w, StatusInternalServerError,
                                            CouldNotCreate(c.msg))
                                 ELSE [w EXCEPT !.pc = "load", !.n = c.id], TRUE)

\* POST /admin/subscribers, past the middleware
CreateSubscriber(p, body, fault) ==
    /\ sreq[p].pc = "handler"
    /\ CreateStep(p, Handle(p, "create", NoParam, body), fault)
    /\ UNCHANGED <<calls, signinVars>>

\* POST /signup/subscribers: the same handler, no middleware in front
SignupCreate(p, body, fault) ==
    /\ Arrive(p)
    /\ ~Gated("signup")
    /\ CreateStep(p, [IdleReq EXCEPT !.op = "create", !.route = "signup",
                                     !.updates = body], fault)
    /\ UNCHANGED signinVars

\* db.Preload("SubscriberTypes").First(&subscriber, subscriber.ID) and the response
CreateLoad(p, fault) ==
    /\ sreq[p].pc = "load"
    /\ LET f == First(db, sreq[p].n, TRUE, fault)
           r == [sreq[p] EXCEPT !.reads = @ + 1]
       IN  sreq' = Slots(p, IF f.err
                            THEN Reply(r, StatusInternalServerError,
                                       "Failed to load created subscriber with subscriber_types")
                            ELSE Reply([r EXCEPT !.res = {f.sub}], StatusCreated, ""),
                         FALSE)
    /\ UNCHANGED <<db, calls, signinVars>>

\* ------------------------------------------- GetAllSubscribers, GetSubscriber
GetAllSubscribers(p, fault) ==
    /\ sreq[p].pc = "handler"
    /\ LET f == Find(db, fault)
           r == [Handle(p, "list", NoParam, EmptyBody) EXCEPT !.reads = @ + 1]
       IN  sreq' = Slots(p, IF f.err
                            THEN Reply(r, StatusInternalServerError,
                                       "Could not retrieve subscribers")
                            ELSE Reply([r EXCEPT !.res = f.subs], StatusOK, ""), FALSE)
    /\ UNCHANGED <<db, calls, signinVars>>

GetSubscriber(p, param, fault) ==
    /\ sreq[p].pc = "handler"
    /\ LET h == Handle(p, "get", param, EmptyBody)
           id == strconvAtoi(param)
           f == First(db, id.n, TRUE, fault)
           r == [h EXCEPT !.reads = @ + 1, !.n = id.n]
       IN  sreq' = Slots(p, IF id.err
                            THEN Reply(h, StatusBadRequest, "Invalid subscriber ID")
                            ELSE IF f.err
                            THEN Reply(r, StatusNotFound, "Subscriber not found")
                            ELSE Reply([r EXCEPT !.res = {f.sub}, !.pre = f.sub],
                                       StatusOK, ""), FALSE)
    /\ UNCHANGED <<db, calls, signinVars>>

\* ------------------------------------------------------- UpdateSubscriber
\* updates.SubscriberTypes != nil && len(updates.SubscriberTypes) > 0
TypesPresent(updates) ==
    ~updates.SubscriberTypes.nil /\ Len(updates.SubscriberTypes.list) > 0
\* updates.SubscriberTypes != nil && len(updates.SubscriberTypes) == 0
TypesEmptied(updates) ==
    ~updates.SubscriberTypes.nil /\ Len(updates.SubscriberTypes.list) = 0

\* Atoi, the load of the existing subscriber, BodyParser, validation
UpdateSubscriber(p, param, body, fault) ==
    /\ sreq[p].pc = "handler"
    /\ LET h == Handle(p, "update", param, body)
           id == strconvAtoi(param)
           f == First(db, id.n, TRUE, fault)
           r == [h EXCEPT !.reads = @ + 1, !.n = id.n]
           e == [r EXCEPT !.existing = f.sub, !.pre = f.sub]
           invalid == validateSubscriberFields(r.updates)
       IN  sreq' = Slots(p,
               IF id.err
               THEN Reply(h, StatusBadRequest, "Invalid subscriber ID")
               ELSE IF f.err
               THEN Reply(r, StatusNotFound, "Subscriber not found")
               ELSE IF r.updates.bad
               THEN Reply(e, StatusBadRequest, "Unable to parse request body")
               ELSE IF invalid # ""
               THEN Reply(e, StatusBadRequest, invalid)
               ELSE IF TypesPresent(r.updates) THEN [e EXCEPT !.pc = "clear"]
               ELSE IF TypesEmptied(r.updates) THEN [e EXCEPT !.pc = "remove"]
               ELSE [e EXCEPT !.pc = "save"], FALSE)
    /\ UNCHANGED <<db, calls, signinVars>>

\* remove all existing subscriber_types (either branch)
UpdateClear(p, fault) ==
    /\ sreq[p].pc \in {"clear", "remove"}
    /\ LET r == [sreq[p] EXCEPT !.writes = @ + 1]
       IN  IF fault
           THEN /\ sreq' = Slots(p, Reply(r, StatusInternalServerError,
                                     IF r.pc = "clear"
                                     THEN "Could not clear old subscriber_types"
                                     ELSE "Could not remove subscriber_types"), TRUE)
                /\ db' = db
           ELSE /\ sreq' = Slots(p, [r EXCEPT !.pc = IF r.pc = "clear" THEN "create"
                                                      ELSE "save"], TRUE)
                /\ db' = DeleteTypesOf(db, r.existing.ID)
    /\ UNCHANGED <<calls, signinVars>>

\* create new subscriber_types referencing existing.ID
UpdateCreateTypes(p, fault) ==
    /\ sreq[p].pc = "create"
    /\ LET r == [sreq[p] EXCEPT !.writes = @ + 1]
           c == IF fault THEN [err |-> TRUE, db |-> db]
                ELSE CreateTypes(db, r.updates.SubscriberTypes.list, r.existing.ID, FALSE)
       IN  /\ db' = c.db
           /\ sreq' = Slots(p, IF c.err
                               THEN Reply(r, StatusInternalServerError,
                                          "Could not create updated subscriber_types")
                               ELSE [r EXCEPT !.pc = "save"], TRUE)
    /\ UNCHANGED <<calls, signinVars>>

\* existing.Email = updates.Email; existing.Name = updates.Name
Merged_EmailOnly(r) == [r.existing EXCEPT !.Email = r.updates.Email]
Merged(r) == [r.existing EXCEPT !.Email = r.updates.Email, !.Name = r.updates.Name]

\* db.Save(&existing)
UpdateSave(p, fault) ==
    /\ sreq[p].pc = "save"
    /\ LET r == [sreq[p] EXCEPT !.writes = @ + 1]
           c == IF fault THEN [err |-> TRUE, db |-> db] ELSE gormSave(db, Merged(r), now)
       IN  /\ db' = c.db
           /\ sreq' = Slots(p, IF c.err
                               THEN Reply(r, StatusInternalServerError,
                                          "Could not update subscriber")
                               ELSE [r EXCEPT !.pc = "reload"], TRUE)
    /\ UNCHANGED <<calls, signinVars>>

\* db.Preload("SubscriberTypes").First(&existing, existing.ID) and the response
UpdateReload(p, fault) ==
    /\ sreq[p].pc = "reload"
    /\ LET f == First(db, sreq[p].existing.ID, TRUE, fault)
           r == [sreq[p] EXCEPT !.reads = @ + 1]
       IN  sreq' = Slots(p, IF f.err
                            THEN Reply(r, StatusInternalServerError,
                                       "Failed to fetch updated subscriber")
                            ELSE Reply([r EXCEPT !.res = {f.sub}], StatusOK, ""), FALSE)
    /\ UNCHANGED <<db, calls, signinVars>>

\* ------------------------------------------------------- DeleteSubscriber
\* Atoi and db.First(&subscriber, id)
DeleteSubscriber(p, param, fault) ==
    /\ sreq[p].pc = "handler"
    /\ LET h == Handle(p, "delete", param, EmptyBody)
           id == strconvAtoi(param)
           f == First(db, id.n, FALSE, fault)
           r == [h EXCEPT !.reads = @ + 1, !.n = id.n]
       IN  sreq' = Slots(p, IF id.err
                            THEN Reply(h, StatusBadRequest, "Invalid subscriber ID")
                            ELSE IF f.err
                            THEN Reply(r, StatusNotFound, "Subscriber not found")
                            ELSE [r EXCEPT !.existing = f.sub, !.pc = "deltypes",
                                           !.pre = First(db, id.n, TRUE, FALSE).sub],
                         FALSE)
    /\ UNCHANGED <<db, calls, signinVars>>

\* remove subscriber_types first
DeleteTypes(p, fault) ==
    /\ sreq[p].pc = "deltypes"
    /\ LET r == [sreq[p] EXCEPT !.writes = @ + 1]
       IN  IF fault
           THEN /\ sreq' = Slots(p, Reply(r, StatusInternalServerError,
                                          "Could not delete subscriber_types"), TRUE)
                /\ db' = db
           ELSE /\ sreq' = Slots(p, [r EXCEPT !.pc = "delsub"], TRUE)
                /\ db' = DeleteTypesOf(db, r.existing.ID)
    /\ UNCHANGED <<calls, signinVars>>

\* db.Delete(&subscriber) and the response
DeleteRow(p, fault) ==
    /\ sreq[p].pc = "delsub"
    /\ LET r == [sreq[p] EXCEPT !.writes = @ + 1]
           c == IF fault THEN [err |-> TRUE, db |-> db] ELSE gormDelete(db, r.existing.ID)
       IN  /\ db' = c.db
           /\ sreq' = Slots(p, IF c.err
                               THEN Reply(r, StatusInternalServerError,
                                          "Could not delete subscriber")
                               ELSE Reply(r, StatusNoContent, ""), TRUE)
    /\ UNCHANGED <<calls, signinVars>>

\* the response has been delivered; the slot serves the next request
Deliver(p) ==
    /\ sreq[p].pc = "done"
    /\ sreq' = [sreq EXCEPT ![p] = IdleReq]
    /\ UNCHANGED <<db, calls, signinVars>>

\* The stores as a completed sign-in leaves them: one live session, its token
\* handed out, the code consumed; the relational store empty.
SignedInCode == generateSixDigitCode([err |-> FALSE, b |-> <<0, 0, 7>>, nano |-> 0])
SignedIn ==
    /\ now = 0
    /\ ticks = 0
    /\ redis = (sessionKey(randomToken(1)) :>
                   [val |-> userProfile("a@b.com"), exp |-> SessionTTL])
    /\ proc = [p \in Procs |-> Idle]
    /\ started = 2
    /\ nextSid = 1
    /\ tokens = {GenerateJWT(randomToken(1), 0)}
    /\ issued = [e \in Emails |-> <<SignedInCode>>]
    /\ verified = [e \in Emails |-> SignedInCode]
    /\ fate = [e \in Emails |-> "consumed"]
    /\ wrote = [e \in Emails |-> 0]

InitAdmin ==
    /\ SignedIn
    /\ db = EmptyDB
    /\ sreq = [p \in Procs |-> IdleReq]
    /\ calls = 0

NextAdmin ==
    \/ \E p \in Procs, h \in AdminHeaders, fault \in BOOLEAN : AdminRequest(p, h, fault)
    \/ \E p \in Procs, body \in Bodies, fault \in BOOLEAN : SignupCreate(p, body, fault)
    \/ \E p \in Procs, body \in Bodies, fault \in BOOLEAN :
            CreateSubscriber(p, body, fault)
    \/ \E p \in Procs, fault \in BOOLEAN : CreateLoad(p, fault)
    \/ \E p \in Procs, fault \in BOOLEAN : GetAllSubscribers(p, fault)
    \/ \E p \in Procs, param \in PathParams, fault \in BOOLEAN :
            GetSubscriber(p, param, fault)
    \/ \E p \in Procs, param \in PathParams, body \in Bodies, fault \in BOOLEAN :
            UpdateSubscriber(p, param, body, fault)
    \/ \E p \in Procs, fault \in BOOLEAN : UpdateClear(p, fault)
    \/ \E p \in Procs, fault \in BOOLEAN : UpdateCreateTypes(p, fault)
    \/ \E p \in Procs, fault \in BOOLEAN : UpdateSave(p, fault)
    \/ \E p \in Procs, fault \in BOOLEAN : UpdateReload(p, fault)
    \/ \E p \in Procs, param \in PathParams, fault \in BOOLEAN :
            DeleteSubscriber(p, param, fault)
    \/ \E p \in Procs, fault \in BOOLEAN : DeleteTypes(p, fault)
    \/ \E p \in Procs, fault \in BOOLEAN : DeleteRow(p, fault)
    \/ \E p \in Procs : Deliver(p)

SpecAdmin == InitAdmin /\ [][NextAdmin]_vars

\* ----------------------------------------------------- sign-up, then sign-in
\* The sign-in flow run against a relational store that is empty, and against
\* one in which POST /signup/subscribers has stored the email that signs in.
SignupBodies == { SubscriberInput(Chars(e), Name1, NoTypes) : e \in Emails }

InitSignup ==
    /\ now = 0
    /\ ticks = 0
    /\ redis = << >>
    /\ proc = [p \in Procs |-> Idle]
    /\ started = 0
    /\ nextSid = 0
    /\ tokens = {}
    /\ issued = [e \in Emails |-> << >>]
    /\ verified = [e \in Emails |-> << >>]
    /\ fate = [e \in Emails |-> "never"]
    /\ wrote = [e \in Emails |-> -1]
    /\ db \in {EmptyDB} \cup { gormCreate(EmptyDB, body, 0).db : body \in SignupBodies }
    /\ sreq = [p \in Procs |-> IdleReq]
    /\ calls = 0

SpecSignup == InitSignup /\ [][Next]_vars

\* ------------------------------------ subscriber requests naming row ids
\* The subscriber routes for two request bodies with a type list: one leaves
\* the ids to the store, one carries "id": 1 and "subscriber_id": 1 in its
\* type row.
IdBodies ==
    { SubscriberInput(Email1, Name1, TypeList(<<TypeRow(0, "shopper")>>)),
      SubscriberInput(Email2, Name2,
                      TypeList(<<[TypeRow(1, "driver") EXCEPT !.SubscriberID = 1]>>)) }

NextIds ==
    \/ \E p \in Procs, h \in AdminHeaders, fault \in BOOLEAN : AdminRequest(p, h, fault)
    \/ \E p \in Procs, body \in IdBodies, fault \in BOOLEAN :
            SignupCreate(p, body, fault)
    \/ \E p \in Procs, body \in IdBodies, fault \in BOOLEAN :
            CreateSubscriber(p, body, fault)
    \/ \E p \in Procs, fault \in BOOLEAN : CreateLoad(p, fault)
    \/ \E p \in Procs, param \in PathParams, body \in IdBodies, fault \in BOOLEAN :
            UpdateSubscriber(p, param, body, fault)
    \/ \E p \in Procs, fault \in BOOLEAN : UpdateClear(p, fault)
    \/ \E p \in Procs, fault \in BOOLEAN : UpdateCreateTypes(p, fault)
    \/ \E p \in Procs, fault \in BOOLEAN : UpdateSave(p, fault)
    \/ \E p \in Procs, fault \in BOOLEAN : UpdateReload(p, fault)
    \/ \E p \in Procs, param \in PathParams, fault \in BOOLEAN :
            DeleteSubscriber(p, param, fault)
    \/ \E p \in Procs, fault \in BOOLEAN : DeleteTypes(p, fault)
    \/ \E p \in Procs, fault \in BOOLEAN : DeleteRow(p, fault)
    \/ \E p \in Procs : Deliver(p)

SpecIds == InitAdmin /\ [][NextIds]_vars

\* ------------------------------------------------- sign-in for two emails
\* The sign-in routes called for two different emails with well-formed bodies.
BothEmails == Emails \cup {"c@d.com"}

InitBoth ==
    /\ now = 0
    /\ ticks = 0
    /\ redis = << >>
    /\ proc = [p \in Procs |-> Idle]
    /\ started = 0
    /\ nextSid = 0
    /\ tokens = {}
    /\ issued = [e \in BothEmails |-> << >>]
    /\ verified = [e \in BothEmails |-> << >>]
    /\ fate = [e \in BothEmails |-> "never"]
    /\ wrote = [e \in BothEmails |-> -1]
    /\ db = EmptyDB
    /\ sreq = [p \in Procs |-> IdleReq]
    /\ calls = 0

NextBoth ==
    \/ \E p \in Procs, email \in BothEmails, r \in RandReads, fault \in BOOLEAN :
            RequestSignIn(p, FALSE, email, r, fault)
    \/ \E p \in Procs, fault \in BOOLEAN : SendCodeEmail(p, fault)
    \/ \E p \in Procs, email \in BothEmails, code \in Codes, fault \in BOOLEAN :
            VerifySignIn(p, FALSE, email, code, fault)
    \/ \E p \in Procs, fault \in BOOLEAN : VerifyDelete(p, fault)
    \/ \E p \in Procs, fault \in BOOLEAN : VerifySession(p, fault)
    \/ \E d \in Advance : Tick(d)
    \/ \E p \in Procs : Return(p)

SpecBoth == InitBoth /\ [][NextBoth]_vars

\* ------------------------------------------- subscriber requests over time
\* The subscriber routes with the clock running between the calls, for two
\* request bodies: one with a type, one without a type list.
TimedBodies ==
    { SubscriberInput(Email1, Name1, TypeList(<<TypeRow(0, "shopper")>>)),
      SubscriberInput(Email2, Name2, NoTypes) }

NextTimed ==
    \/ \E p \in Procs, h \in AdminHeaders, fault \in BOOLEAN : AdminRequest(p, h, fault)
    \/ \E p \in Procs, body \in TimedBodies, fault \in BOOLEAN :
            SignupCreate(p, body, fault)
    \/ \E p \in Procs, body \in TimedBodies, fault \in BOOLEAN :
            CreateSubscriber(p, body, fault)
    \/ \E p \in Procs, fault \in BOOLEAN : CreateLoad(p, fault)
    \/ \E p \in Procs, fault \in BOOLEAN : GetAllSubscribers(p, fault)
    \/ \E p \in Procs, param \in PathParams, fault \in BOOLEAN :
            GetSubscriber(p, param, fault)
    \/ \E p \in Procs, param \in PathParams, body \in TimedBodies, fault \in BOOLEAN :
            UpdateSubscriber(p, param, body, fault)
    \/ \E p \in Procs, fault \in BOOLEAN : UpdateClear(p, fault)
    \/ \E p \in Procs, fault \in BOOLEAN : UpdateCreateTypes(p, fault)
    \/ \E p \in Procs, fault \in BOOLEAN : UpdateSave(p, fault)
    \/ \E p \in Procs, fault \in BOOLEAN : UpdateReload(p, fault)
    \/ \E p \in Procs, param \in PathParams, fault \in BOOLEAN :
            DeleteSubscriber(p, param, fault)
    \/ \E p \in Procs, fault \in BOOLEAN : DeleteTypes(p, fault)
    \/ \E p \in Procs, fault \in BOOLEAN : DeleteRow(p, fault)
    \/ \E p \in Procs : Deliver(p)
    \/ \E d \in Advance : Tick(d)

SpecTimed == InitAdmin /\ [][NextTimed]_vars

\* ================================================================ properties
IsRequest(p) == proc[p].op = "RequestSignIn"
IsVerify(p) == proc[p].op = "VerifySignIn"
IsAuth(p) == proc[p].op = "RequireJWT"
Done(p) == proc[p].pc = "done"
Succeeded(p) == Done(p) /\ proc[p].status = StatusOK
NoCodeBody == "No sign-in code found or code expired"
NoEffect(p) == proc[p].reads = 0 /\ proc[p].writes = 0 /\ proc[p].sends = 0
NoSession(p) == proc[p].token = EmptyToken /\ proc[p].sessionID = ""
\* the token of a header is signed with the configured secret and unexpired at t
SignedAndFresh(tok, t) == tok.format = "jwt" /\ tok.key = Secret /\ t < tok.exp

\* C1: once a verification of (email, code) has succeeded and no RequestSignIn
\* has stored a code for that email since, the key signin_code:email is absent
\* and every later verification of the same (email, code) ends with 400
\* "No sign-in code found".
C1_SingleUse ==
    /\ \A e \in Emails : verified[e] # << >> => ~Present(signInCodeKey(e))
    /\ \A p \in Procs :
         (IsVerify(p) /\ proc[p].reads = 1 /\ proc[p].replay)
            => /\ Done(p)
               /\ proc[p].status = StatusBadRequest
               /\ proc[p].body = NoCodeBody

\* C2: two verifications of the same email that observed the same stored code
\* (both lookups returned it, both deletes were carried out) never both
\* succeed: one stored code yields at most one session.
C2_AtomicConsume ==
    \A p, q \in Procs :
        (/\ p # q
         /\ IsVerify(p) /\ IsVerify(q)
         /\ proc[p].email = proc[q].email
         /\ proc[p].seen = proc[q].seen
         /\ proc[p].delErr = "" /\ proc[q].delErr = "")
            => ~(Succeeded(p) /\ Succeeded(q))

\* C3: a request whose token is correctly signed and unexpired, but whose
\* session record is not in the store when RequireJWT validates it, gets 401
\* and the next handler is not invoked.
C3_TokenSessionCoupling ==
    \A p \in Procs :
        (/\ IsAuth(p)
         /\ proc[p].header.scheme = BearerPrefix
         /\ SignedAndFresh(proc[p].header.cred, proc[p].at)
         /\ proc[p].header.cred.session_key[1] = "string"
         /\ ~proc[p].had)
            => proc[p].status = StatusUnauthorized /\ ~proc[p].nextCalled

C3_Witness ==
    \E p \in Procs :
        /\ IsAuth(p)
        /\ proc[p].header.scheme = BearerPrefix
        /\ SignedAndFresh(proc[p].header.cred, proc[p].at)
        /\ \E t \in tokens : t.session_key = proc[p].header.cred.session_key
        /\ proc[p].header.cred \notin tokens
        /\ ~proc[p].had
        /\ proc[p].err = "redis: nil"
        /\ proc[p].status = StatusUnauthorized

\* C4: RequireJWT invokes the next handler exactly when the header is present,
\* has the Bearer prefix, the token verifies and is unexpired, session_key is a
\* string and the session lookup returns a non-empty value without error; the
\* checks run in that order, the first failing one decides the denial, the
\* lookup is made only when the first four pass, and every denial is a 401.
C4_AuthorizeOrder ==
    \A p \in Procs :
        IsAuth(p) =>
            LET h == proc[p].header
                c1 == h # NoHeader
                c2 == h.scheme = BearerPrefix
                c3 == SignedAndFresh(h.cred, proc[p].at)
                c4 == h.cred.session_key[1] = "string"
                c5 == proc[p].reads = 1 /\ proc[p].err = "" /\ proc[p].val # << >>
                first == IF ~c1 THEN 1 ELSE IF ~c2 THEN 2 ELSE IF ~c3 THEN 3
                         ELSE IF ~c4 THEN 4 ELSE IF ~c5 THEN 5 ELSE 6
            IN  /\ proc[p].nextCalled <=> (c1 /\ c2 /\ c3 /\ c4 /\ c5)
                /\ ~proc[p].nextCalled => proc[p].status = StatusUnauthorized
                /\ proc[p].step = first
                /\ proc[p].reads = (IF first >= 5 THEN 1 ELSE 0)
                /\ proc[p].writes = 0

C4_Witness ==
    \E p \in Procs :
        /\ IsAuth(p)
        /\ proc[p].header.cred \in tokens
        /\ proc[p].nextCalled

\* C5: the response to a token that fails verification (step 3) equals, in
\* status and body, the response any request denied at the session lookup
\* (step 5) gets.
C5_UniformDenial ==
    \A p \in Procs :
        (IsAuth(p) /\ proc[p].step = 3) =>
            \A h \in HeaderInputs, fault \in BOOLEAN :
                LET d == Authorize(h, now, GetValue(HeaderSessionKey(h), fault))
                IN  d.step = 5 =>
                        d.status = proc[p].status /\ d.body = proc[p].body

\* C6: after a successful verification the code key is absent (until a new
\* code is requested), the token's session_key names the session written,
\* that session holds the verified email for as long as the token is
\* unexpired, and RequireJWT lets a request with an issued token through
\* whenever the token is unexpired and the lookup finds the live session.
C6_EndToEndSignIn ==
    /\ \A p \in Procs :
         (IsVerify(p) /\ Succeeded(p)) =>
            /\ verified[proc[p].email] = proc[p].code
                  => ~Present(signInCodeKey(proc[p].email))
            /\ proc[p].token.session_key = <<"string", proc[p].sessionID>>
            /\ now < proc[p].token.exp =>
                  /\ Present(sessionKey(proc[p].sessionID))
                  /\ redis[sessionKey(proc[p].sessionID)].val[2] = proc[p].email
    /\ \A q \in Procs :
         (/\ IsAuth(q)
          /\ proc[q].header.scheme = BearerPrefix
          /\ proc[q].header.cred \in tokens
          /\ proc[q].at < proc[q].header.cred.exp
          /\ proc[q].had
          /\ proc[q].err # "io")
            => proc[q].nextCalled

\* C7: a verification whose lookup returned a non-empty stored code different
\* from the supplied one (compared as strings) ends with 401, returns no token
\* and writes nothing: no session is created.
C7_CodeMismatch ==
    \A p \in Procs :
        (/\ IsVerify(p)
         /\ proc[p].reads = 1
         /\ proc[p].err = ""
         /\ proc[p].val # << >>
         /\ proc[p].val # proc[p].code)
            => /\ Done(p)
               /\ proc[p].status = StatusUnauthorized
               /\ NoSession(p)
               /\ proc[p].writes = 0

C7_Witness ==
    \E p \in Procs :
        /\ IsVerify(p)
        /\ proc[p].val = <<0, 0, 0, 0, 0, 7>>
        /\ proc[p].code = <<7>>
        /\ proc[p].status = StatusUnauthorized

\* C8: a verification for an email whose code was never requested, has
\* expired or was already consumed ends with the same 400 response, never
\* 401, and writes nothing to the store.
C8_NoStoredCode ==
    \A p \in Procs :
        (/\ IsVerify(p)
         /\ proc[p].reads = 1
         /\ proc[p].fate \in {"never", "expired", "consumed"})
            => /\ Done(p)
               /\ proc[p].status = StatusBadRequest
               /\ proc[p].body = NoCodeBody
               /\ NoSession(p)
               /\ proc[p].writes = 0

C8_Witness ==
    \E p \in Procs :
        /\ IsVerify(p)
        /\ proc[p].reads = 1
        /\ proc[p].fate = "consumed"
        /\ proc[p].code = verified[proc[p].email]
        /\ proc[p].status = StatusBadRequest

\* C9: RequestSignIn with an empty email and VerifySignIn with an empty email
\* or an empty code end with 400 without any store call or email dispatch.
C9_MissingInput ==
    \A p \in Procs :
        /\ (IsRequest(p) /\ proc[p].email = "")
              => Done(p) /\ proc[p].status = StatusBadRequest /\ NoEffect(p)
        /\ (IsVerify(p) /\ (proc[p].email = "" \/ proc[p].code = << >>))
              => Done(p) /\ proc[p].status = StatusBadRequest /\ NoEffect(p)

C9_Witness ==
    \E p \in Procs :
        /\ IsVerify(p)
        /\ proc[p].email \in Emails
        /\ proc[p].code = << >>
        /\ Present(signInCodeKey(proc[p].email))
        /\ proc[p].status = StatusBadRequest

\* C10: the code stored for an email is always the non-empty 6-digit code of
\* the latest RequestSignIn write for it, which stays until it expires or is
\* consumed; only that code verifies, and an earlier, different code of the
\* same email is rejected with 401.
C10_OneCodePerEmail ==
    /\ \A e \in Emails :
         /\ Present(signInCodeKey(e)) =>
               /\ issued[e] # << >>
               /\ redis[signInCodeKey(e)].val = issued[e][Len(issued[e])]
               /\ Len(redis[signInCodeKey(e)].val) = CodeWidth
         /\ fate[e] = "live" => Present(signInCodeKey(e))
    /\ \A p \in Procs :
         (IsVerify(p) /\ proc[p].reads = 1 /\ proc[p].err = "") =>
            LET codes == issued[proc[p].email]
                n == proc[p].seen
            IN  /\ n > 0
                /\ proc[p].val = codes[n]
                /\ (~Done(p) \/ Succeeded(p)) => proc[p].code = codes[n]
                /\ (/\ proc[p].code # codes[n]
                    /\ \E i \in 1..(n - 1) : codes[i] = proc[p].code)
                      => proc[p].status = StatusUnauthorized

C10_Witness ==
    \E p \in Procs :
        /\ IsVerify(p)
        /\ proc[p].seen = 2
        /\ issued[proc[p].email][1] = proc[p].code
        /\ issued[proc[p].email][2] # proc[p].code
        /\ proc[p].status = StatusUnauthorized

\* C11: a verification whose lookup is made CodeTTL minutes or more after the
\* latest code write for its email (or when no code was ever written) ends
\* with 400 even when it supplies the code that was stored, and creates no
\* session; a verification that gets past the lookup made it within CodeTTL
\* of that write.
C11_CodeExpiry ==
    \A p \in Procs :
        (IsVerify(p) /\ proc[p].reads = 1) =>
            LET e == proc[p].email
            IN  /\ (wrote[e] < 0 \/ proc[p].at >= wrote[e] + CodeTTL)
                    => /\ Done(p)
                       /\ proc[p].status = StatusBadRequest
                       /\ NoSession(p)
                       /\ proc[p].writes = 0
                /\ (~Done(p) \/ Succeeded(p))
                    => wrote[e] >= 0 /\ proc[p].at < wrote[e] + CodeTTL

C11_Witness ==
    \E p \in Procs :
        /\ IsVerify(p)
        /\ proc[p].reads = 1
        /\ issued[proc[p].email] # << >>
        /\ proc[p].code = issued[proc[p].email][Len(issued[proc[p].email])]
        /\ proc[p].at = wrote[proc[p].email] + CodeTTL
        /\ proc[p].err = "redis: nil"
        /\ proc[p].status = StatusBadRequest

\* ------------------------------------------------- subscribers: properties
ReqDone(p) == sreq[p].pc = "done"
\* the aggregate stored under id: base fields and owned subscriber_types rows
Aggregate(id) == First(db, id, TRUE, FALSE)
TypeNames(rows) == { t.Name : t \in rows }
ListNames(list) == { list[i].Name : i \in 1..Len(list) }
Returned(p) == CHOOSE sub \in sreq[p].res : TRUE

\* C12: a request on the /admin routes gets to a subscriber handler (and so to
\* any read or write of the relational store) only after RequireJWT allowed
\* it; without a header, or with a token naming a session that is not stored,
\* it ends with 401 whatever else it carries and has made no store call; the
\* signup route offers only create and asks for no token.
C12_AdminGating ==
    \A p \in Procs :
        /\ (sreq[p].route = "admin" /\ ~sreq[p].allowed)
              => /\ ReqDone(p)
                 /\ sreq[p].status = StatusUnauthorized
                 /\ sreq[p].op = "none"
                 /\ sreq[p].reads = 0 /\ sreq[p].writes = 0
        /\ (/\ sreq[p].route = "admin"
            /\ \/ sreq[p].header = NoHeader
               \/ ~Present(HeaderSessionKey(sreq[p].header)))
              => ~sreq[p].allowed
        /\ sreq[p].route = "signup" => sreq[p].op = "create"

C12_Witness ==
    /\ DOMAIN db.subscribers # {}
    /\ \E p \in Procs :
          /\ sreq[p].route = "admin"
          /\ sreq[p].header.scheme = BearerPrefix
          /\ SignedAndFresh(sreq[p].header.cred, now)
          /\ ~Present(HeaderSessionKey(sreq[p].header))
          /\ sreq[p].status = StatusUnauthorized
    /\ \E q \in DOMAIN db.subscribers : db.subscribers[q].email = Email2

\* C13: an Update or Delete that ends in an error of one of its write calls,
\* with no other request writing meanwhile, leaves the subscriber's base
\* fields and its subscriber_types rows exactly as they were before it.
C13_NoHalfAppliedAggregate ==
    \A p \in Procs :
        (/\ sreq[p].op \in {"update", "delete"}
         /\ ReqDone(p)
         /\ sreq[p].status = StatusInternalServerError
         /\ sreq[p].body # "Failed to fetch updated subscriber"
         /\ sreq[p].alone)
            => Aggregate(sreq[p].n) = [err |-> FALSE, sub |-> sreq[p].pre]

\* C14: two Updates of the same subscriber that both carry a non-empty type
\* list and both load the subscriber before either writes (the subscriber
\* having no types then) leave, when both have returned 200, the aggregate of
\* one of them: the types of exactly one request's list and the base fields
\* of one of the two.
C14_ConcurrentUpdates ==
    \A p, q \in Procs :
        (/\ p # q
         /\ sreq[p].op = "update" /\ sreq[q].op = "update"
         /\ ReqDone(p) /\ ReqDone(q)
         /\ sreq[p].status = StatusOK /\ sreq[q].status = StatusOK
         /\ sreq[p].n = sreq[q].n
         /\ TypesPresent(sreq[p].updates) /\ TypesPresent(sreq[q].updates)
         /\ sreq[p].pre.SubscriberTypes = {} /\ sreq[q].pre.SubscriberTypes = {})
            => LET a == Aggregate(sreq[p].n).sub
               IN  \E w \in {p, q} :
                      /\ Cardinality(a.SubscriberTypes)
                            = Len(sreq[w].updates.SubscriberTypes.list)
                      /\ TypeNames(a.SubscriberTypes)
                            = ListNames(sreq[w].updates.SubscriberTypes.list)
                      /\ \E b \in {p, q} :
                            a.Email = sreq[b].updates.Email /\ a.Name = sreq[b].updates.Name

\* C15: a Create, and an Update of an existing id, whose body has an empty
\* email, an email without '@' or without dot-suffix, or a blank name, ends
\* with 400 and has made no write call.
C15_ValidationBeforeMutation ==
    \A p \in Procs :
        (/\ sreq[p].op \in {"create", "update"}
         /\ sreq[p].op = "update" => sreq[p].pre.ID # 0
         /\ ~sreq[p].updates.bad
         /\ sreq[p].updates.Email \in InvalidEmails \/ sreq[p].updates.Name = BlankName)
            => /\ ReqDone(p)
               /\ sreq[p].status = StatusBadRequest
               /\ sreq[p].writes = 0

C15_Witness ==
    \E p \in Procs :
        /\ sreq[p].op = "update"
        /\ sreq[p].pre.SubscriberTypes # {}
        /\ sreq[p].updates.Email = <<"a", "@", "b">>
        /\ sreq[p].status = StatusBadRequest
        /\ Aggregate(sreq[p].n).sub = sreq[p].pre

\* C16: every subscriber_types row refers to a subscribers row that exists.
C16_ReferentialIntegrity ==
    \A t \in DOMAIN db.subscriber_types :
        db.subscriber_types[t].subscriber_id \in DOMAIN db.subscribers

C16_Witness ==
    \E p, q \in Procs :
        /\ sreq[p].op = "delete" /\ sreq[p].pc = "delsub"
        /\ sreq[p].pre.SubscriberTypes # {}
        /\ sreq[q].op = "update" /\ sreq[q].n = sreq[p].n
        /\ sreq[q].pc = "save"
        /\ TypesOf(db, sreq[p].n) # {}

\* C17: once a Delete of an id has returned 204 there is no subscribers row
\* with that id and no subscriber_types row owned by it.
C17_DeletionPermanent ==
    \A p \in Procs :
        (sreq[p].op = "delete" /\ ReqDone(p) /\ sreq[p].status = StatusNoContent)
            => /\ sreq[p].n \notin DOMAIN db.subscribers
               /\ TypesOf(db, sreq[p].n) = {}

\* C18: a successful Update with a non-empty type list, no other request
\* writing meanwhile, returns (and leaves stored) exactly the types of its
\* list and none of the rows the subscriber had before.
C18_UpdateReplacesTypes ==
    \A p \in Procs :
        (/\ sreq[p].op = "update"
         /\ ReqDone(p)
         /\ sreq[p].status = StatusOK
         /\ TypesPresent(sreq[p].updates)
         /\ sreq[p].alone)
            => LET got == Returned(p).SubscriberTypes
                   list == sreq[p].updates.SubscriberTypes.list
               IN  /\ Cardinality(got) = Len(list)
                   /\ TypeNames(got) = ListNames(list)
                   /\ \A t \in got : t.SubscriberID = sreq[p].n
                   /\ \A t \in sreq[p].pre.SubscriberTypes :
                         t.ID \notin { g.ID : g \in got }

\* C19: a successful Update with a present, empty type list, no other request
\* writing meanwhile, leaves the subscriber without subscriber_types rows.
C19_UpdateEmptyRemovesTypes ==
    \A p \in Procs :
        (/\ sreq[p].op = "update"
         /\ ReqDone(p)
         /\ sreq[p].status = StatusOK
         /\ TypesEmptied(sreq[p].updates)
         /\ sreq[p].alone)
            => Returned(p).SubscriberTypes = {}

\* C20: the save of an Update whose body omits the type list is its only
\* write call; it sets the base fields to the body's email and name, leaves
\* every row the subscriber had when the Update loaded it in place with the
\* same id, name and owner, and adds, removes or changes no other row.
C20_UpdateOmittedKeepsTypes ==
    [][\A p \in Procs :
          (/\ sreq[p].op = "update"
           /\ sreq[p].updates.SubscriberTypes.nil
           /\ sreq[p].pc = "save"
           /\ sreq'[p].pc = "reload")
              => LET id == sreq[p].n
                     had == sreq[p].pre.SubscriberTypes
                     old == db.subscriber_types
                     new == db'.subscriber_types
                 IN  /\ sreq[p].writes = 0 /\ sreq'[p].writes = 1
                     /\ db'.subscribers[id].email = sreq[p].updates.Email
                     /\ db'.subscribers[id].name = sreq[p].updates.Name
                     /\ \A t \in had :
                           /\ t.ID \in DOMAIN new
                           /\ new[t.ID] = [subscriber_id |-> id, name |-> t.Name]
                     /\ DOMAIN new = DOMAIN old \cup { t.ID : t \in had }
                     /\ \A k \in DOMAIN old :
                           k \notin { t.ID : t \in had } => new[k] = old[k]]_vars

C20_Witness ==
    \E p \in Procs :
        /\ sreq[p].op = "update"
        /\ sreq[p].updates.SubscriberTypes.nil
        /\ ReqDone(p)
        /\ sreq[p].status = StatusOK
        /\ sreq[p].pre.SubscriberTypes # {}
        /\ Returned(p).SubscriberTypes = sreq[p].pre.SubscriberTypes
        /\ Returned(p).Name # sreq[p].pre.Name
        /\ Returned(p).Email # sreq[p].pre.Email

\* the body passes validateSubscriberFields: address-shaped email, non-blank name
FieldsValid(b) == ~b.bad /\ b.Email \in {Email1, Email2} /\ b.Name \in {Name1, Name2}
\* responses that report a failed connection to the relational store
StoreDown ==
    { CouldNotCreate("conn"), "Failed to load created subscriber with subscriber_types" }

\* C21: a Create whose body has a valid email and a non-blank name, the store
\* being reachable, returns 201 with a non-zero id; the subscriber returned
\* has the body's email and name and exactly the body's types, each with an
\* assigned id and subscriber_id = id; read back with no write in between,
\* the stored aggregate is the one returned.
C21_CreateRoundTrip ==
    \A p \in Procs :
        (/\ sreq[p].op = "create"
         /\ FieldsValid(sreq[p].updates)
         /\ ReqDone(p)
         /\ sreq[p].body \notin StoreDown)
            => /\ sreq[p].status = StatusCreated
               /\ sreq[p].n # 0
               /\ LET got == Returned(p)
                      list == sreq[p].updates.SubscriberTypes.list
                  IN  /\ got.ID = sreq[p].n
                      /\ got.Email = sreq[p].updates.Email
                      /\ got.Name = sreq[p].updates.Name
                      /\ Cardinality(got.SubscriberTypes) = Len(list)
                      /\ TypeNames(got.SubscriberTypes) = ListNames(list)
                      /\ \A t \in got.SubscriberTypes :
                            t.ID # 0 /\ t.SubscriberID = sreq[p].n
                      /\ sreq[p].alone => Aggregate(sreq[p].n).sub = got


\* C22: every stored subscriber has a non-empty email that matches the
\* address-shape pattern and a name that is not blank after trimming.
C22_ValidAtRest ==
    \A id \in DOMAIN db.subscribers :
        /\ db.subscribers[id].email # << >>
        /\ MatchString(db.subscribers[id].email)
        /\ TrimSpace(db.subscribers[id].name) # << >>

C22_Witness ==
    \E p \in Procs :
        /\ sreq[p].op = "update"
        /\ ReqDone(p)
        /\ sreq[p].status = StatusOK
        /\ sreq[p].pre.Email # sreq[p].updates.Email
        /\ sreq[p].pre.Name # sreq[p].updates.Name
        /\ db.subscribers[sreq[p].n].email = sreq[p].updates.Email
        /\ db.subscribers[sreq[p].n].name = sreq[p].updates.Name
        /\ Cardinality(DOMAIN db.subscribers) = 2

\* C23: a sign-in request one of whose store calls failed (the code lookup,
\* the code delete) has ended with a 500 without making a further call, and
\* no request makes more than one lookup, two writes or one dispatch.
C23_DependencyFailures ==
    \A p \in Procs :
        /\ (IsVerify(p) /\ proc[p].err = "io")
              => /\ Done(p)
                 /\ proc[p].status = StatusInternalServerError
                 /\ proc[p].writes = 0
        /\ (IsVerify(p) /\ proc[p].delErr = "io")
              => /\ Done(p)
                 /\ proc[p].status = StatusInternalServerError
                 /\ proc[p].writes = 1
        /\ proc[p].reads <= 1 /\ proc[p].writes <= 2 /\ proc[p].sends <= 1

\* C24: a verification whose session write failed has ended with 500, carries
\* no token, and neither a session record under the identifier drawn for it
\* nor a token naming that identifier exists.
C24_SessionWriteFailure ==
    \A p \in Procs :
        (IsVerify(p) /\ Done(p) /\ proc[p].sessionID # "" /\ proc[p].status # StatusOK)
            => /\ proc[p].status = StatusInternalServerError
               /\ proc[p].body = "Could not store session"
               /\ proc[p].token = EmptyToken
               /\ ~Present(sessionKey(proc[p].sessionID))
               /\ \A t \in tokens : t.session_key # <<"string", proc[p].sessionID>>

C24_Witness ==
    \E p \in Procs :
        /\ IsVerify(p)
        /\ Done(p)
        /\ proc[p].status = StatusInternalServerError
        /\ proc[p].sessionID = randomToken(2)
        /\ Present(sessionKey(randomToken(1)))
        /\ ~Present(signInCodeKey(proc[p].email))

\* what RequestSignIn answers, or that it goes on to the dispatch, as a
\* function of the request and of the outcome of its store write
RequestOutcome(badBody, email, fault) ==
    IF badBody THEN <<"done", StatusBadRequest, "Invalid request body">>
    ELSE IF email = "" THEN <<"done", StatusBadRequest, "Missing email">>
    ELSE IF fault THEN <<"done", StatusInternalServerError, "Unable to store code in redis">>
    ELSE <<"send", 0, "">>

\* C25: the response of a code request is determined by the request itself
\* and by the outcomes of its own store write and dispatch; it is the same
\* whether or not a subscriber with the email is stored and whether or not a
\* code or a session for the email exists.
C25_NoEnumerationSignal ==
    [][/\ \A p \in Procs, badBody \in BOOLEAN, email \in EmailInputs,
             r \in RandReads, fault \in BOOLEAN :
               RequestSignIn(p, badBody, email, r, fault)
                  => <<proc'[p].pc, proc'[p].status, proc'[p].body>>
                        = RequestOutcome(badBody, email, fault)
       /\ \A p \in Procs, fault \in BOOLEAN :
               SendCodeEmail(p, fault)
                  => /\ proc'[p].pc = "done"
                     /\ <<proc'[p].status, proc'[p].body>>
                           = IF fault
                             THEN <<StatusInternalServerError, "Failed to send email">>
                             ELSE <<StatusOK, "A sign-in code has been emailed to you.">>
      ]_vars

\* a code request answered 200 for an email that is a stored subscriber, has
\* a live session and had a code stored before
C25_Witness ==
    \E p \in Procs :
        /\ IsRequest(p)
        /\ Succeeded(p)
        /\ Known(proc[p].email)
        /\ Len(issued[proc[p].email]) = 2
        /\ \E t \in tokens : Present(sessionKey(t.session_key[2]))

\* C26: a code request whose dispatch failed has ended with 500 after that
\* one dispatch; no code request dispatches more than once, nor at all
\* before its code is stored.
C26_DispatchFailure ==
    \A p \in Procs :
        IsRequest(p) =>
            /\ proc[p].err = "dispatch"
                  => /\ Done(p)
                     /\ proc[p].status = StatusInternalServerError
                     /\ proc[p].sends = 1
            /\ proc[p].sends <= 1
            /\ proc[p].sends = 1 => proc[p].writes = 1

C26_Witness ==
    \E p \in Procs :
        /\ IsRequest(p)
        /\ proc[p].err = "dispatch"
        /\ proc[p].status = StatusInternalServerError
        /\ Present(signInCodeKey(proc[p].email))
        /\ redis[signInCodeKey(proc[p].email)].val = proc[p].code

\* C27: a Get, Update or Delete whose lookup of the id found no subscriber
\* has ended with 404 "Subscriber not found", whatever its body, without a
\* further store call; every request answered 404 has made no write call.
C27_NotFound ==
    \A p \in Procs :
        /\ (/\ sreq[p].op \in {"get", "update", "delete"}
            /\ sreq[p].reads >= 1
            /\ sreq[p].pre = NoSubscriber)
              => /\ ReqDone(p)
                 /\ sreq[p].status = StatusNotFound
                 /\ sreq[p].body = "Subscriber not found"
                 /\ sreq[p].res = {}
                 /\ sreq[p].reads = 1
                 /\ sreq[p].writes = 0
        /\ sreq[p].status = StatusNotFound
              => sreq[p].reads = 1 /\ sreq[p].writes = 0

C27_Witness ==
    \E p \in Procs :
        /\ sreq[p].op = "update"
        /\ sreq[p].updates.Email \in InvalidEmails
        /\ sreq[p].n = 2
        /\ sreq[p].pre = NoSubscriber
        /\ DOMAIN db.subscribers = {1}
        /\ db.subscribers_id_seq = 1
        /\ sreq[p].status = StatusNotFound

\* C28: RequireJWT answers 401 at the token check, without a session lookup,
\* to every correctly signed token presented at or after its expiry, whether
\* or not the session it names is stored; a token that was let through was
\* presented less than TokenTTL after it was issued.
C28_TokenExpiry ==
    \A p \in Procs :
        IsAuth(p) =>
            LET tok == proc[p].header.cred
            IN  /\ (/\ proc[p].header.scheme = BearerPrefix
                    /\ tok.format = "jwt"
                    /\ tok.key = Secret
                    /\ proc[p].at >= tok.exp)
                      => /\ proc[p].status = StatusUnauthorized
                         /\ ~proc[p].nextCalled
                         /\ proc[p].step = 3
                         /\ proc[p].reads = 0
                /\ proc[p].nextCalled
                      => /\ proc[p].at < tok.exp
                         /\ proc[p].at < tok.iat + TokenTTL

C28_Witness ==
    \E p \in Procs :
        /\ IsAuth(p)
        /\ proc[p].header.scheme = BearerPrefix
        /\ proc[p].header.cred.key = Secret
        /\ proc[p].header.cred.session_key[1] = "string"
        /\ proc[p].at >= proc[p].header.cred.exp
        /\ proc[p].had
        /\ Present(HeaderSessionKey(proc[p].header))
        /\ proc[p].status = StatusUnauthorized

\* C29: the token GenerateJWT makes for a session identifier, now and for
\* every token handed out, verifies under the configured secret when it is
\* made, carries that identifier as a string in session_key and expires
\* TokenTTL after iat; a verification that handed out a token made its one
\* lookup and its two writes (code delete, session write) and no other call.
C29_IssueTokenRoundTrip ==
    /\ \A n \in 1..Len(SidNames) :
          LET tok == GenerateJWT(randomToken(n), now)
          IN  /\ ParseWithClaims(tok, now)
              /\ tok.session_key = <<"string", randomToken(n)>>
              /\ tok.iat = now
              /\ tok.exp = tok.iat + TokenTTL
    /\ \A tok \in tokens :
          /\ ParseWithClaims(tok, tok.iat)
          /\ tok.session_key[1] = "string"
          /\ tok.exp = tok.iat + TokenTTL
    /\ \A p \in Procs :
          (IsVerify(p) /\ Succeeded(p))
             => /\ proc[p].token \in tokens
                /\ proc[p].token.session_key = <<"string", proc[p].sessionID>>
                /\ proc[p].token.iat >= proc[p].at
                /\ proc[p].reads = 1 /\ proc[p].writes = 2 /\ proc[p].sends = 0

C29_Witness ==
    \E p \in Procs :
        /\ IsVerify(p)
        /\ Succeeded(p)
        /\ proc[p].token.iat = CodeTTL
        /\ proc[p].token.exp = CodeTTL + TokenTTL
        /\ proc[p].token.session_key = <<"string", randomToken(1)>>
        /\ Present(sessionKey(randomToken(1)))

\* the subscriber stored under id, with the rows of subscriber_types it owns
StoredSubscriber(id) ==
    [ID |-> id,
     Email |-> db.subscribers[id].email,
     Name |-> db.subscribers[id].name,
     SubscriberTypes |->
        { [ID |-> t, SubscriberID |-> id, Name |-> db.subscriber_types[t].name] :
            t \in { x \in DOMAIN db.subscriber_types :
                        db.subscriber_types[x].subscriber_id = id } },
     CreatedAt |-> db.subscribers[id].created_at,
     UpdatedAt |-> db.subscribers[id].updated_at]

\* what a Get or a list returned is exactly what is stored, for as long as
\* no request has written since
ReadsReturnStored ==
    \A p \in Procs :
        /\ sreq[p].op \in {"get", "list"} => sreq[p].writes = 0
        /\ (sreq[p].op = "get" /\ ReqDone(p) /\ sreq[p].status = StatusOK /\ sreq[p].alone)
              => sreq[p].res = {StoredSubscriber(sreq[p].n)}
        /\ (sreq[p].op = "list" /\ ReqDone(p) /\ sreq[p].status = StatusOK /\ sreq[p].alone)
              => sreq[p].res = { StoredSubscriber(id) : id \in DOMAIN db.subscribers }

\* C30: the step in which GetSubscriber or GetAllSubscribers runs leaves the
\* relational store and the key-value store as they were; and after every
\* step what a Get or a list returned is, for as long as no request has
\* written since, exactly what is stored (email, name, created_at,
\* updated_at, the set of types), however much time has passed: a repeated
\* read returns the same values.
C30_ReadIdempotent ==
    [][/\ ReadsReturnStored'
       /\ \A p \in Procs :
            (sreq[p].pc = "handler" /\ sreq'[p].op \in {"get", "list"})
               => /\ db' = db
                  /\ redis' = redis
                  /\ tokens' = tokens]_vars

C30_Witness ==
    \E p \in Procs :
        /\ sreq[p].op = "get"
        /\ ReqDone(p)
        /\ sreq[p].status = StatusOK
        /\ sreq[p].alone
        /\ Returned(p).SubscriberTypes # {}
        /\ Returned(p).UpdatedAt > Returned(p).CreatedAt
        /\ now > Returned(p).UpdatedAt

\* C31: no verification has ended with 200 and a token, its delete of the
\* code having failed, while the code it matched is still stored under
\* signin_code:email.
C31_TokenOnlyAfterDelete ==
    \A p \in Procs :
        (IsVerify(p) /\ Succeeded(p) /\ proc[p].delErr = "io")
            => ~(/\ Present(signInCodeKey(proc[p].email))
                 /\ redis[signInCodeKey(proc[p].email)].val = proc[p].code)

\* the session keys in the store
SessionKeys == { k \in DOMAIN redis : k[1] = "session:" }

\* C32: every token handed out names a session of its own; until the token
\* expires that session is stored with the profile and the expiry it was
\* written with, whatever requests have run since (nothing deleted it, nothing
\* overwrote or refreshed it); the stored sessions are exactly those of the
\* unexpired tokens; and RequireJWT lets an issued, unexpired token through
\* whenever its session lookup does not fail.
C32_SessionsEndByExpiry ==
    /\ \A t \in tokens :
          now < t.exp =>
             /\ Present(sessionKey(t.session_key[2]))
             /\ redis[sessionKey(t.session_key[2])].exp = t.iat + SessionTTL
             /\ \E e \in Emails : redis[sessionKey(t.session_key[2])].val = userProfile(e)
    /\ \A t, u \in tokens : t.session_key = u.session_key => t = u
    /\ SessionKeys = { sessionKey(t.session_key[2]) : t \in { u \in tokens : now < u.exp } }
    /\ \A q \in Procs :
          (/\ IsAuth(q)
           /\ proc[q].header.scheme = BearerPrefix
           /\ proc[q].header.cred \in tokens
           /\ proc[q].at < proc[q].header.cred.exp
           /\ proc[q].err # "io")
             => proc[q].nextCalled

C32_Witness ==
    /\ Cardinality(tokens) = 2
    /\ Cardinality(SessionKeys) = 2
    /\ \A t \in tokens : Present(sessionKey(t.session_key[2]))
    /\ \E t \in tokens : t.iat > 0 /\ t.session_key[2] = randomToken(2)
    /\ \E t \in tokens : t.iat = 0 /\ t.session_key[2] = randomToken(1)

\* C33: the step in which a request passes through RequireJWT, allowed or
\* denied, leaves the key-value store and the relational store as they were,
\* reads the session key at most once, and reads nothing when the request is
\* turned away by one of the first four checks.
C33_AuthorizeNoSideEffect ==
    [][\A p \in Procs :
          (proc[p].pc = "idle" /\ proc'[p].op = "RequireJWT")
             => /\ redis' = redis
                /\ db' = db
                /\ proc'[p].pc = "done"
                /\ proc'[p].reads <= 1
                /\ proc'[p].writes = 0
                /\ proc'[p].step < 5 => proc'[p].reads = 0
                /\ proc'[p].step >= 5 => proc'[p].reads = 1]_vars

C33_Witness ==
    \E p, q \in Procs :
        /\ IsAuth(p) /\ Done(p) /\ proc[p].nextCalled /\ proc[p].reads = 1
        /\ Present(HeaderSessionKey(proc[p].header))
        /\ redis[HeaderSessionKey(proc[p].header)].exp = proc[p].header.cred.iat + SessionTTL
        /\ proc[p].at > proc[p].header.cred.iat
        /\ q # p

\* six decimal digits
SixDigits(code) == Len(code) = CodeWidth /\ \A i \in 1..Len(code) : code[i] \in 0..9

\* C34: every code generateSixDigitCode returns, on the random path and on
\* the time-derived path, is six decimal digits, zero-padded; so is every code
\* a sign-in request has generated, every code issued and every code stored.
C34_CodeFormat ==
    /\ \A r \in RandReads : SixDigits(generateSixDigitCode(r))
    /\ \A p \in Procs :
          (IsRequest(p) /\ proc[p].writes >= 1) => SixDigits(proc[p].code)
    /\ \A e \in Emails :
          /\ \A i \in 1..Len(issued[e]) : SixDigits(issued[e][i])
          /\ Present(signInCodeKey(e)) => SixDigits(redis[signInCodeKey(e)].val)

C34_Witness ==
    \E p \in Procs, e \in Emails :
        /\ IsRequest(p) /\ Succeeded(p)
        /\ proc[p].code = <<0, 0, 0, 0, 0, 7>>
        /\ Present(signInCodeKey(e)) /\ redis[signInCodeKey(e)].val = proc[p].code
        /\ Len(issued[e]) = 2 /\ issued[e][1] = <<1, 2, 3, 4, 5, 6>>

\* C35: the step in which a verification looks the code up changes nothing in
\* the store; when it answers 401 for a mismatch it has written nothing and
\* the code it compared against is still stored with the expiry it had; and a
\* verification that read a code equal to the one presented is never turned
\* away with 400 or 401.
C35_FailedGuessKeepsCode ==
    [][\A p \in Procs :
          (proc[p].pc = "idle" /\ proc'[p].op = "VerifySignIn")
             => /\ redis' = redis
                /\ proc'[p].writes = 0
                /\ proc'[p].status = StatusUnauthorized
                      => LET key == signInCodeKey(proc'[p].email)
                         IN  /\ key \in DOMAIN redis'
                             /\ redis'[key].val = proc'[p].val
                             /\ redis'[key].val # proc'[p].code
                             /\ redis'[key].exp = wrote'[proc'[p].email] + CodeTTL
                             /\ redis'[key].exp > now'
                /\ (proc'[p].err = "" /\ proc'[p].val # << >>
                      /\ proc'[p].val = proc'[p].code /\ proc'[p].reads = 1)
                      => proc'[p].pc = "delete"]_vars

C35_Witness ==
    \E p \in Procs :
        /\ IsVerify(p) /\ Done(p) /\ proc[p].status = StatusUnauthorized
        /\ proc[p].code \in Codes
        /\ Present(signInCodeKey(proc[p].email))
        /\ redis[signInCodeKey(proc[p].email)].val \in Codes \ {proc[p].code}
        /\ redis[signInCodeKey(proc[p].email)].exp = wrote[proc[p].email] + CodeTTL

\* the code of request p is the latest one issued for its email, has not been
\* consumed by a verification and has not run out
LatestLive(p) ==
    LET e == proc[p].email
    IN  /\ Len(issued[e]) >= 1
        /\ issued[e][Len(issued[e])] = proc[p].code
        /\ fate[e] = "live"
        /\ now < wrote[e] + CodeTTL

\* C36: a sign-in request whose store write failed has sent no email; one that
\* has reached the dispatch has written its code first; and when the dispatch
\* failed the answer is 500 while the code, unless a later request, a
\* verification or the clock has removed it since, is the one stored under
\* signin_code:email with its full lifetime, and a verification presenting it
\* passes the lookup and the comparison.
C36_StoreBeforeDispatch ==
    \A p \in Procs :
        IsRequest(p) =>
            /\ proc[p].body = "Unable to store code in redis"
                  => proc[p].sends = 0 /\ proc[p].writes = 1
            /\ (proc[p].sends >= 1 \/ proc[p].pc = "send")
                  => /\ proc[p].writes = 1
                     /\ \E i \in 1..Len(issued[proc[p].email]) :
                            issued[proc[p].email][i] = proc[p].code
            /\ (Done(p) /\ proc[p].err = "dispatch")
                  => /\ proc[p].status = StatusInternalServerError
                     /\ proc[p].body = "Failed to send email"
                     /\ LatestLive(p)
                           => LET key == signInCodeKey(proc[p].email)
                                  got == GetValue(key, FALSE)
                              IN  /\ Present(key)
                                  /\ redis[key].val = proc[p].code
                                  /\ redis[key].exp = wrote[proc[p].email] + CodeTTL
                                  /\ ~NoCodeFound(got)
                                  /\ ~InvalidCode(got.val, proc[p].code)

C36_Witness ==
    \E p \in Procs :
        /\ IsRequest(p) /\ Done(p) /\ proc[p].err = "dispatch"
        /\ LatestLive(p)
        /\ Len(issued[proc[p].email]) = 2
        /\ issued[proc[p].email][1] # proc[p].code
        /\ redis[signInCodeKey(proc[p].email)].val = proc[p].code

\* C37: when a verification matched the code and then failed to store the
\* session (500), and no sign-in request has stored a code since its lookup,
\* the code it matched is no longer under signin_code:email, so that the same
\* (email, code) presented again finds no code.
C37_CodeConsumedBeforeSession ==
    \A p \in Procs :
        (/\ IsVerify(p) /\ Done(p)
         /\ proc[p].status = StatusInternalServerError
         /\ proc[p].body = "Could not store session"
         /\ Len(issued[proc[p].email]) = proc[p].seen)
            => NoCodeFound(GetValue(signInCodeKey(proc[p].email), FALSE))


\* C38: whether or not a subscriber with the email is stored, the outcome of
\* RequireJWT is the one Authorize computes from the header, the time and the
\* session lookup alone, and a token handed out by a sign-in passes it while
\* it is unexpired and the lookup does not fail.
C38_AuthorizationIgnoresSubscribers ==
    \A q \in Procs :
        (IsAuth(q) /\ Done(q)) =>
            LET d == Authorize(proc[q].header, proc[q].at,
                               [val |-> proc[q].val, err |-> proc[q].err])
            IN  /\ proc[q].nextCalled = d.allow
                /\ proc[q].status = d.status
                /\ proc[q].step = d.step
                /\ (/\ proc[q].header.scheme = BearerPrefix
                     /\ proc[q].header.cred \in tokens
                     /\ proc[q].at < proc[q].header.cred.exp
                     /\ proc[q].err # "io")
                       => proc[q].nextCalled /\ proc[q].status = 0

C38_Witness ==
    \E q \in Procs, e \in Emails :
        /\ IsAuth(q) /\ Done(q) /\ proc[q].nextCalled
        /\ proc[q].header.cred \in tokens
        /\ proc[q].val = userProfile(e)
        /\ ~Known(e)
        /\ db = EmptyDB

\* the entry stored under key k in store r, or none
Stored(r, k) == IF k \in DOMAIN r THEN {r[k]} ELSE {}

\* C39: in every step, the entry under signin_code:B changes only when the
\* clock moves or a sign-in request or verification for B itself takes the
\* step; no key other than signin_code:A is written or deleted by a request
\* or verification for A; the value a verification for A has read is the one
\* stored under signin_code:A; and a verification for A goes past the
\* comparison only with the string stored for A.
C39_PerEmailIsolation ==
    [][/\ \A e \in BothEmails :
            \/ Stored(redis', signInCodeKey(e)) = Stored(redis, signInCodeKey(e))
            \/ now' # now
            \/ \E p \in Procs :
                   /\ proc'[p] # proc[p]
                   /\ proc'[p].email = e
                   /\ proc'[p].op \in {"RequestSignIn", "VerifySignIn"}
                   /\ proc'[p].writes = proc[p].writes + 1
       /\ \A p \in Procs :
            (proc[p].pc = "idle" /\ proc'[p].op = "VerifySignIn" /\ proc'[p].reads = 1)
               => /\ proc'[p].val \in
                        {x.val : x \in Stored(redis, signInCodeKey(proc'[p].email))}
                          \cup {<< >>}
                  /\ proc'[p].pc = "delete"
                        => /\ signInCodeKey(proc'[p].email) \in DOMAIN redis
                           /\ redis[signInCodeKey(proc'[p].email)].val = proc'[p].code
       /\ \A k \in (DOMAIN redis' \ DOMAIN redis) \cup
                     { x \in DOMAIN redis \cap DOMAIN redis' : redis'[x] # redis[x] } :
            k[1] = "signin_code:" => k[2] \in BothEmails]_vars

C39_Witness ==
    \E p \in Procs, a, b \in BothEmails :
        /\ a # b
        /\ IsVerify(p) /\ Succeeded(p)
        /\ proc[p].email = a /\ proc[p].delErr = ""
        /\ ~Present(signInCodeKey(a))
        /\ Present(signInCodeKey(b))
        /\ redis[signInCodeKey(b)].val # proc[p].code
        /\ redis[signInCodeKey(b)].exp = wrote[b] + CodeTTL

\* the stored subscriber y with the type rows it owns, or none
Owned(d, y) ==
    IF y \in DOMAIN d.subscribers
    THEN {[base |-> [email |-> d.subscribers[y].email, name |-> d.subscribers[y].name],
           types |-> TypesOf(d, y)]}
    ELSE {}

\* C40: in every step, the base fields of a stored subscriber and the type
\* rows it owns change only when the step is a write of a create, update or
\* delete addressed to that subscriber.
C40_PerSubscriberIsolation ==
    [][\A y \in DOMAIN db.subscribers :
          Owned(db', y) # Owned(db, y)
             => \E p \in Procs :
                   /\ sreq'[p].writes = sreq[p].writes + 1
                   /\ sreq'[p].n = y]_vars
====
